---- MODULE Spec2Model ----
(***************************************************************************)
(* Verification model of the P2P overlay core: TopologyManager, Node (peer *)
(* roster), DynamicNodeManager (membership and failure detection) and the  *)
(* MessageHandler entry points that touch them.                            *)
(*                                                                         *)
(* Every mutex of the source is a std::mutex (non-recursive).  Locking a   *)
(* std::mutex the calling thread already owns is undefined behaviour; the  *)
(* builds the README names produce two outcomes, and the model carries the *)
(* outcome as the variable relock, chosen once in Init:                    *)
(*   "blocks"   the thread never returns from lock() (pthread mutex), and  *)
(*              the mutex stays owned for ever;                            *)
(*   "reenters" lock() returns and the mutex behaves as a recursive one    *)
(*              (ownership counted, released by the outermost guard).      *)
(***************************************************************************)
EXTENDS Integers, Sequences, FiniteSets, TLC

(***************************************************************************)
(* Bounds of the model                                                     *)
(***************************************************************************)
MaxNodes == 4
MaxMembers == 2
MaxTicks == 2
ClockStep == 50
MaxPeerIds == 2
MaxThreads == 2

\* the clock stops after MaxTicks steps of ClockStep seconds
MaxClock == MaxTicks * ClockStep

NodeIds == 1..MaxNodes

(***************************************************************************)
(* Program constants                                                       *)
(***************************************************************************)
MAX_PEERS == 10
NODE_TIMEOUT_SEC == 90
HEARTBEAT_INTERVAL_SEC == 30

\* NetworkAddress(): host "" and port 0
NoAddress == [host |-> "", port |-> 0]
Addr1 == [host |-> "10.0.0.1", port |-> 8888]
Addr2 == [host |-> "10.0.0.2", port |-> 8889]
TopoAddresses == {Addr1, Addr2}

RelockOutcomes == {"blocks", "reenters"}

VARIABLES
  relock,            \* outcome of re-locking an owned std::mutex in this build
  nodeRegistry_,     \* TopologyManager::nodeRegistry_  : NodeID -> NetworkAddress
  adjacencyList_,    \* TopologyManager::adjacencyList_ : NodeID -> set<NodeID>
  topologyMutex_,    \* TopologyManager::topologyMutex_ : 0 (free) or the owning thread
  peerIDs_,          \* Node::peerIDs_        : vector<NodeID>
  peerAddresses_,    \* Node::peerAddresses_  : vector<NetworkAddress>
  lastSeen_,         \* Node::lastSeen_       : the local node's own liveness timestamp
  dnmRegistry_,      \* DynamicNodeManager::nodeRegistry_ : NodeID -> NodeInfo
  nodesMutex_,       \* DynamicNodeManager::nodesMutex_   : 0 (free) or the owning thread
  now,               \* std::chrono::system_clock::now(), in seconds
  pendingRegistrationsMutex_,  \* NodeRegistration::pendingRegistrationsMutex_ : 0 or owner
  pc,                \* per thread: the call it is in, the step it has reached, its locals
  ret,               \* the last call made on the component and what it returned
  activeConnections_,    \* NetworkManager::activeConnections_ : the peers with a stored socket
  pendingMessages_,      \* ReliableMessaging::pendingMessages_ : messageID -> ReliableMessage
  sentMessages_,         \* ReliableMessaging::sentMessages_
  acknowledgedMessages_, \* ReliableMessaging::acknowledgedMessages_
  failedMessages_,       \* ReliableMessaging::failedMessages_
  messageIDGen,          \* the values generateMessageID's static generator has returned
  seenMessages_,         \* MessageRouter::seenMessages_ : fingerprint -> time first seen
  forwardedMessageCount_, \* MessageRouter::forwardedMessageCount_
  chunkSize_,            \* DataExchange::chunkSize_
  outgoingTransfers_,    \* DataExchange::outgoingTransfers_ : transferID -> DataTransfer
  incomingTransfers_,    \* DataExchange::incomingTransfers_ : transferID -> DataTransfer
  receivedChunks_,       \* DataExchange::receivedChunks_ : transferID -> (sequenceNumber -> DataChunk)
  completedData_,        \* DataExchange::completedData_ : transferID -> bytes
  transferIDGen,         \* the values generateTransferID's static generator has returned
  callbacks,             \* how often each installed callback was invoked, per argument
  wire                   \* the messages handed to NetworkManager::sendMessageToPeer, in order

topoVars == <<nodeRegistry_, adjacencyList_, topologyMutex_>>
nodeVars == <<peerIDs_, peerAddresses_, lastSeen_>>
dnmVars == <<dnmRegistry_, nodesMutex_>>
rmVars == <<pendingMessages_, sentMessages_, acknowledgedMessages_, failedMessages_,
            messageIDGen>>
routerVars == <<seenMessages_, forwardedMessageCount_>>
dxVars == <<chunkSize_, outgoingTransfers_, incomingTransfers_, receivedChunks_,
            completedData_, transferIDGen>>

\* the messaging components, the transport and the observation of their calls
ext == <<activeConnections_, rmVars, routerVars, dxVars, callbacks, wire>>

vars == <<relock, nodeRegistry_, adjacencyList_, topologyMutex_, peerIDs_, peerAddresses_,
          lastSeen_, dnmRegistry_, nodesMutex_, now, pendingRegistrationsMutex_, pc, ret,
          ext>>

\* what the operations called from a single thread leave alone
others == <<pendingRegistrationsMutex_, pc, ext>>

\* what the TopologyManager operations leave alone
notTopology == <<nodeVars, dnmVars, now, others>>

(***************************************************************************)
(* Helpers for std::map / std::set iteration order (ascending keys)        *)
(***************************************************************************)
Min(S) == CHOOSE x \in S : \A y \in S : x <= y

RECURSIVE SortedSeq(_)
SortedSeq(S) == IF S = {} THEN <<>> ELSE <<Min(S)>> \o SortedSeq(S \ {Min(S)})

Range(s) == {s[i] : i \in 1..Len(s)}

RECURSIVE Reverse(_)
Reverse(s) == IF s = <<>> THEN <<>> ELSE Reverse(Tail(s)) \o <<Head(s)>>

\* std::map::erase(key)
MapErase(m, k) == [x \in DOMAIN m \ {k} |-> m[x]]

\* std::map::operator[](key) = value
MapPut(m, k, v) == [x \in DOMAIN m \cup {k} |-> IF x = k THEN v ELSE m[x]]

(***************************************************************************)
(* TopologyManager: private graph helpers                                  *)
(***************************************************************************)
\* adjacencyList_[k], default-constructing the entry as operator[] does
AdjAt(adj, k) == IF k \in DOMAIN adj THEN adj[k] ELSE {}

\* addEdge without the reverse insertion
addEdgeOneWay(adj, from, to) ==
  IF from = to THEN adj
  ELSE MapPut(MapPut(adj, to, AdjAt(adj, to)), from, AdjAt(adj, from) \cup {to})

addEdge(adj, from, to) ==
  IF from = to THEN adj
  ELSE LET a1 == MapPut(adj, from, AdjAt(adj, from) \cup {to})
       IN  MapPut(a1, to, AdjAt(a1, to) \cup {from})

\* removeNodeFromGraph without the loop that erases the edges pointing to the node
removeNodeFromGraphKeepEdges(reg, adj, nodeID) ==
  [reg |-> MapErase(reg, nodeID), adj |-> MapErase(adj, nodeID)]

removeNodeFromGraph(reg, adj, nodeID) ==
  [reg |-> MapErase(reg, nodeID),
   adj |-> [k \in DOMAIN adj \ {nodeID} |-> adj[k] \ {nodeID}]]

\* validateTopology: drop adjacency entries whose key is not registered
validateTopologyOn(reg, adj) == [k \in DOMAIN adj \cap DOMAIN reg |-> adj[k]]

(***************************************************************************)
(* hasPathDFS(from, to, visited): returns the pair (result, visited)       *)
(***************************************************************************)
RECURSIVE hasPathDFS(_, _, _, _)
RECURSIVE hasPathDFSLoop(_, _, _, _)
hasPathDFS(adj, from, to, visited) ==
  LET v1 == visited \cup {from} IN
  IF from = to THEN [found |-> TRUE, visited |-> v1]
  ELSE IF from \in DOMAIN adj
       THEN hasPathDFSLoop(adj, SortedSeq(adj[from]), to, v1)
       ELSE [found |-> FALSE, visited |-> v1]

hasPathDFSLoop(adj, nbrs, to, visited) ==
  IF nbrs = <<>> THEN [found |-> FALSE, visited |-> visited]
  ELSE IF Head(nbrs) \notin visited
       THEN LET r == hasPathDFS(adj, Head(nbrs), to, visited) IN
            IF r.found THEN r
            ELSE hasPathDFSLoop(adj, Tail(nbrs), to, r.visited)
       ELSE hasPathDFSLoop(adj, Tail(nbrs), to, visited)

isTopologyConnected(reg, adj) ==
  IF DOMAIN reg = {} THEN TRUE
  ELSE IF Cardinality(DOMAIN reg) = 1 THEN TRUE
  ELSE LET startNode == Min(DOMAIN reg)
           r == hasPathDFS(adj, startNode, startNode, {})
       IN  Cardinality(r.visited) = Cardinality(DOMAIN reg)

getAllNodeIDs(reg) == SortedSeq(DOMAIN reg)

getNodeAddress(reg, nodeID) == IF nodeID \in DOMAIN reg THEN reg[nodeID] ELSE NoAddress

(***************************************************************************)
(* findPath(from, to): breadth-first search with queue, parent and visited *)
(***************************************************************************)
RECURSIVE ReconstructPath(_, _, _)
\* the loop "while (node != from) { path.push_back(node); node = parent[node]; }"
ReconstructPath(parent, from, node) ==
  IF node = from THEN <<>>
  ELSE <<node>> \o ReconstructPath(parent, from, parent[node])

RECURSIVE findPathLoopNoReverse(_, _, _, _, _, _)
\* findPathLoop without std::reverse on the reconstructed path
findPathLoopNoReverse(adj, from, to, queue, parent, visited) ==
  IF queue = <<>> THEN <<>>
  ELSE LET current == Head(queue)
           rest == Tail(queue)
       IN IF current = to
          THEN ReconstructPath(parent, from, to) \o <<from>>
          ELSE LET nbrs == IF current \in DOMAIN adj THEN SortedSeq(adj[current]) ELSE <<>>
                   fresh == SelectSeq(nbrs, LAMBDA n : n \notin visited)
                   parent1 == [x \in DOMAIN parent \cup Range(fresh) |->
                                 IF x \in DOMAIN parent THEN parent[x] ELSE current]
               IN findPathLoopNoReverse(adj, from, to, rest \o fresh, parent1,
                                        visited \cup Range(fresh))

RECURSIVE findPathLoop(_, _, _, _, _, _)
findPathLoop(adj, from, to, queue, parent, visited) ==
  IF queue = <<>> THEN <<>>
  ELSE LET current == Head(queue)
           rest == Tail(queue)
       IN IF current = to
          THEN Reverse(ReconstructPath(parent, from, to) \o <<from>>)
          ELSE LET nbrs == IF current \in DOMAIN adj THEN SortedSeq(adj[current]) ELSE <<>>
                   fresh == SelectSeq(nbrs, LAMBDA n : n \notin visited)
                   parent1 == [x \in DOMAIN parent \cup Range(fresh) |->
                                 IF x \in DOMAIN parent THEN parent[x] ELSE current]
               IN findPathLoop(adj, from, to, rest \o fresh, parent1,
                               visited \cup Range(fresh))

findPath(adj, from, to) ==
  IF from = to THEN <<from>>
  ELSE findPathLoop(adj, from, to, <<from>>, [x \in {from} |-> from], {from})

\* the ring repairTopology adds: edges (nodeIDs[i], nodeIDs[(i+1) % n])
RECURSIVE RingFrom(_, _, _)
RingFrom(adj, nodeIDs, i) ==
  IF i > Len(nodeIDs) THEN adj
  ELSE RingFrom(addEdge(adj, nodeIDs[i], nodeIDs[(i % Len(nodeIDs)) + 1]), nodeIDs, i + 1)

\* body of repairTopology once its inner lock() calls have returned
repairTopologyOn(reg, adj) ==
  LET a1 == validateTopologyOn(reg, adj) IN
  IF ~isTopologyConnected(reg, a1)
  THEN LET nodeIDs == getAllNodeIDs(reg) IN
       IF Len(nodeIDs) > 1 THEN RingFrom(a1, nodeIDs, 1) ELSE a1
  ELSE a1

(***************************************************************************)
(* TopologyManager public operations, each under lock_guard(topologyMutex_)*)
(* The caller of the sequential specification is thread 1.                 *)
(***************************************************************************)
Caller == 1

addNode(nodeID, address) ==
  /\ topologyMutex_ = 0
  /\ IF nodeID \in DOMAIN nodeRegistry_
     THEN /\ ret' = [op |-> "addNode", id |-> nodeID, val |-> FALSE]
          /\ UNCHANGED <<nodeRegistry_, adjacencyList_>>
     ELSE /\ nodeRegistry_' = MapPut(nodeRegistry_, nodeID, address)
          /\ adjacencyList_' = MapPut(adjacencyList_, nodeID, {})
          /\ ret' = [op |-> "addNode", id |-> nodeID, val |-> TRUE]
  /\ UNCHANGED <<relock, topologyMutex_>>
  /\ UNCHANGED notTopology

removeNode(nodeID) ==
  /\ topologyMutex_ = 0
  /\ IF nodeID \notin DOMAIN nodeRegistry_
     THEN /\ ret' = [op |-> "removeNode", id |-> nodeID, val |-> FALSE, hadEdges |-> FALSE]
          /\ UNCHANGED <<nodeRegistry_, adjacencyList_>>
     ELSE LET g == removeNodeFromGraph(nodeRegistry_, adjacencyList_, nodeID) IN
          /\ nodeRegistry_' = g.reg
          /\ adjacencyList_' = g.adj
          /\ ret' = [op |-> "removeNode", id |-> nodeID, val |-> TRUE,
                     hadEdges |-> AdjAt(adjacencyList_, nodeID) # {}]
  /\ UNCHANGED <<relock, topologyMutex_>>
  /\ UNCHANGED notTopology

updateNodeAddress(nodeID, newAddress) ==
  /\ topologyMutex_ = 0
  /\ IF nodeID \notin DOMAIN nodeRegistry_
     THEN /\ ret' = [op |-> "updateNodeAddress", id |-> nodeID, val |-> FALSE]
          /\ UNCHANGED nodeRegistry_
     ELSE /\ nodeRegistry_' = [nodeRegistry_ EXCEPT ![nodeID] = newAddress]
          /\ ret' = [op |-> "updateNodeAddress", id |-> nodeID, val |-> TRUE]
  /\ UNCHANGED <<relock, adjacencyList_, topologyMutex_>>
  /\ UNCHANGED notTopology

validateTopology ==
  /\ topologyMutex_ = 0
  /\ adjacencyList_' = validateTopologyOn(nodeRegistry_, adjacencyList_)
  /\ ret' = [op |-> "validateTopology"]
  /\ UNCHANGED <<relock, nodeRegistry_, topologyMutex_>>
  /\ UNCHANGED notTopology

\* repairTopology takes topologyMutex_ and then calls validateTopology(),
\* isTopologyConnected() and getAllNodeIDs(), each of which locks it again.
repairTopology ==
  /\ topologyMutex_ = 0
  /\ IF relock = "blocks"
     THEN /\ topologyMutex_' = Caller
          /\ ret' = [op |-> "repairTopology", returned |-> FALSE]
          /\ UNCHANGED <<nodeRegistry_, adjacencyList_>>
     ELSE /\ adjacencyList_' = repairTopologyOn(nodeRegistry_, adjacencyList_)
          /\ ret' = [op |-> "repairTopology", returned |-> TRUE]
          /\ UNCHANGED <<nodeRegistry_, topologyMutex_>>
  /\ UNCHANGED relock
  /\ UNCHANGED notTopology

isTopologyConnectedCall ==
  /\ topologyMutex_ = 0
  /\ ret' = [op |-> "isTopologyConnected",
             val |-> isTopologyConnected(nodeRegistry_, adjacencyList_)]
  /\ UNCHANGED <<relock, nodeRegistry_, adjacencyList_, topologyMutex_>>
  /\ UNCHANGED notTopology

findPathCall(from, to) ==
  /\ topologyMutex_ = 0
  /\ ret' = [op |-> "findPath", from |-> from, to |-> to,
             val |-> findPath(adjacencyList_, from, to)]
  /\ UNCHANGED <<relock, nodeRegistry_, adjacencyList_, topologyMutex_>>
  /\ UNCHANGED notTopology

EmptyMap == [x \in {} |-> 0]

\* the messaging components after construction
InitExt ==
  /\ activeConnections_ = {}
  /\ pendingMessages_ = EmptyMap
  /\ sentMessages_ = 0
  /\ acknowledgedMessages_ = 0
  /\ failedMessages_ = 0
  /\ messageIDGen = {}
  /\ seenMessages_ = EmptyMap
  /\ forwardedMessageCount_ = 0
  /\ chunkSize_ = 4096
  /\ outgoingTransfers_ = EmptyMap
  /\ incomingTransfers_ = EmptyMap
  /\ receivedChunks_ = EmptyMap
  /\ completedData_ = EmptyMap
  /\ transferIDGen = {}
  /\ callbacks = EmptyMap
  /\ wire = <<>>

InitTopology ==
  /\ relock \in RelockOutcomes
  /\ nodeRegistry_ = EmptyMap
  /\ adjacencyList_ = EmptyMap
  /\ topologyMutex_ = 0
  /\ peerIDs_ = <<>>
  /\ peerAddresses_ = <<>>
  /\ lastSeen_ = 0
  /\ dnmRegistry_ = EmptyMap
  /\ nodesMutex_ = 0
  /\ now = 0
  /\ pendingRegistrationsMutex_ = 0
  /\ pc = EmptyMap
  /\ ret = [op |-> "none"]
  /\ InitExt

NextTopology ==
  \/ \E id \in NodeIds, a \in TopoAddresses : addNode(id, a)
  \/ \E id \in NodeIds : removeNode(id)
  \/ \E id \in NodeIds, a \in TopoAddresses : updateNodeAddress(id, a)
  \/ validateTopology
  \/ repairTopology
  \/ isTopologyConnectedCall
  \/ \E a \in NodeIds, b \in NodeIds : findPathCall(a, b)

SpecTopology == InitTopology /\ [][NextTopology]_vars

(***************************************************************************)
(* Graph notions the properties are stated with                            *)
(***************************************************************************)
Grow(adj, S) == S \cup UNION {AdjAt(adj, x) : x \in S}

RECURSIVE ReachWithin(_, _, _)
ReachWithin(adj, S, k) == IF k = 0 THEN S ELSE ReachWithin(adj, Grow(adj, S), k - 1)

ReachableFrom(adj, a) == ReachWithin(adj, {a}, MaxNodes)

Distance(adj, a, b) == Min({k \in 0..MaxNodes : b \in ReachWithin(adj, {a}, k)})

GraphConnected(reg, adj) ==
  \/ Cardinality(DOMAIN reg) <= 1
  \/ DOMAIN reg \subseteq ReachableFrom(adj, Min(DOMAIN reg))

RingEdges(ids) == {<<ids[i], ids[(i % Len(ids)) + 1]>> : i \in 1..Len(ids)}

HasEdge(adj, a, b) == a \in DOMAIN adj /\ b \in adj[a]

(***************************************************************************)
(* C1: in every reachable state of the Topology Engine the adjacency       *)
(* relation is symmetric (b in adjacency[a] iff a in adjacency[b]) and no  *)
(* node is adjacent to itself.                                             *)
(***************************************************************************)
C1_SymmetricNoSelfLoop ==
  \A a \in DOMAIN adjacencyList_ : \A b \in adjacencyList_[a] :
     /\ b # a
     /\ b \in DOMAIN adjacencyList_
     /\ a \in adjacencyList_[b]

\* a node was removed from a graph that still has edges
C1_Witness ==
  /\ ret.op = "removeNode" /\ ret.val
  /\ \E a \in DOMAIN adjacencyList_ : adjacencyList_[a] # {}

(***************************************************************************)
(* C2: every adjacency key and every id inside an adjacency set is in the  *)
(* registry; once removeNode(id) has returned true, id is in neither the   *)
(* registry, the adjacency keys nor any adjacency set, in every state a    *)
(* reader holding the topology lock can see.                               *)
(***************************************************************************)
C2_RegistryClosure ==
  /\ DOMAIN adjacencyList_ \subseteq DOMAIN nodeRegistry_
  /\ \A k \in DOMAIN adjacencyList_ : adjacencyList_[k] \subseteq DOMAIN nodeRegistry_
  /\ (ret.op = "removeNode" /\ ret.val) =>
        /\ ret.id \notin DOMAIN nodeRegistry_
        /\ ret.id \notin DOMAIN adjacencyList_
        /\ \A k \in DOMAIN adjacencyList_ : ret.id \notin adjacencyList_[k]

\* removeNode succeeded on a node of a ring: its two neighbours are left
\* with one or two edges fewer
C2_Witness ==
  /\ ret.op = "removeNode" /\ ret.val
  /\ ret.hadEdges
  /\ Cardinality(DOMAIN nodeRegistry_) >= 2

(***************************************************************************)
(* C3: isTopologyConnected() returns true iff the registry has at most one *)
(* node or every registered node is reachable through adjacency from the   *)
(* start node.                                                             *)
(***************************************************************************)
C3_ConnectedIffReachable ==
  ret.op = "isTopologyConnected" =>
     (ret.val <=> GraphConnected(nodeRegistry_, adjacencyList_))

(***************************************************************************)
(* C4: for a registry with more than one node whose graph is disconnected, *)
(* when repairTopology() has completed the adjacency contains the ring     *)
(* edges over the registry in iteration order and isTopologyConnected()    *)
(* returns true.                                                           *)
(***************************************************************************)
C4_RepairYieldsConnectedRing ==
  [][ ( /\ ret'.op = "repairTopology" /\ ret'.returned
        /\ Cardinality(DOMAIN nodeRegistry_) > 1
        /\ ~GraphConnected(nodeRegistry_, adjacencyList_) )
      => ( /\ \A e \in RingEdges(getAllNodeIDs(nodeRegistry_')) :
                  HasEdge(adjacencyList_', e[1], e[2]) /\ HasEdge(adjacencyList_', e[2], e[1])
           /\ isTopologyConnected(nodeRegistry_', adjacencyList_') ) ]_vars

(***************************************************************************)
(* C5: findPath(a,b) is [a] when a = b, empty when b is not reachable from *)
(* a, and otherwise a path from a to b along edges of the current graph    *)
(* whose length is minimal among all a-b paths.                            *)
(***************************************************************************)
C5_FindPathShortest ==
  ret.op = "findPath" =>
    LET a == ret.from
        b == ret.to
        p == ret.val
    IN IF a = b THEN p = <<a>>
       ELSE IF b \notin ReachableFrom(adjacencyList_, a) THEN p = <<>>
       ELSE /\ Len(p) >= 2
            /\ p[1] = a
            /\ p[Len(p)] = b
            /\ \A i \in 1..(Len(p) - 1) : HasEdge(adjacencyList_, p[i], p[i + 1])
            /\ Len(p) - 1 = Distance(adjacencyList_, a, b)

\* a two-hop shortest path was returned although a direct neighbour of the
\* source lies on a different, longer route
C5_Witness ==
  /\ ret.op = "findPath"
  /\ Len(ret.val) = 3
  /\ Cardinality(AdjAt(adjacencyList_, ret.from)) >= 2

(***************************************************************************)
(* Node: the bounded peer roster, two parallel vectors under peersMutex_   *)
(***************************************************************************)
LocalId == 1

\* std::find(peerIDs_.begin(), peerIDs_.end(), peerID): index of the first match
IndexOf(ids, peerID) == Min({i \in 1..Len(ids) : ids[i] = peerID})

\* vector::erase(begin() + index), index counted from 1
EraseAt(v, index) == [i \in 1..(Len(v) - 1) |-> IF i < index THEN v[i] ELSE v[i + 1]]

hasPeer(ids, peerID) == peerID \in Range(ids)

getPeerCount(ids) == Len(ids)

\* addPeer without the size check
addPeerOnNoLimit(ids, addrs, peerID, peerAddress) ==
  IF peerID \in Range(ids) THEN [ok |-> FALSE, ids |-> ids, addrs |-> addrs]
  ELSE [ok |-> TRUE, ids |-> Append(ids, peerID), addrs |-> Append(addrs, peerAddress)]

addPeerOn(ids, addrs, peerID, peerAddress) ==
  IF peerID \in Range(ids) THEN [ok |-> FALSE, ids |-> ids, addrs |-> addrs]
  ELSE IF Len(ids) >= MAX_PEERS THEN [ok |-> FALSE, ids |-> ids, addrs |-> addrs]
  ELSE [ok |-> TRUE, ids |-> Append(ids, peerID), addrs |-> Append(addrs, peerAddress)]

\* removePeer erasing the last address instead of the one at the id's index
removePeerOnPopBack(ids, addrs, peerID) ==
  IF peerID \notin Range(ids) THEN [ok |-> FALSE, ids |-> ids, addrs |-> addrs]
  ELSE [ok |-> TRUE, ids |-> EraseAt(ids, IndexOf(ids, peerID)),
        addrs |-> SubSeq(addrs, 1, Len(addrs) - 1)]

removePeerOn(ids, addrs, peerID) ==
  IF peerID \notin Range(ids) THEN [ok |-> FALSE, ids |-> ids, addrs |-> addrs]
  ELSE LET index == IndexOf(ids, peerID)
       IN  [ok |-> TRUE, ids |-> EraseAt(ids, index), addrs |-> EraseAt(addrs, index)]

(***************************************************************************)
(* DynamicNodeManager                                                      *)
(***************************************************************************)
NodeStates == {"JOINING", "ACTIVE", "LEAVING", "FAILED", "UNKNOWN"}

MemberIds == 2..(MaxMembers + 1)

\* ids and addresses callers hand to the membership manager, valid or not
DnmIds == {0, LocalId} \cup MemberIds
DnmAddresses == {Addr1, NoAddress}

validateNodeAddition(nodeID, address) ==
  IF nodeID = 0 \/ address.port = 0 \/ address.host = "" THEN FALSE
  ELSE IF nodeID = LocalId THEN FALSE
  ELSE TRUE

\* failureCount >= 3
shouldRemoveNode(info) == info.failureCount >= 3

\* findReplacementConnections: registered ids that are neither self nor the
\* removed node, not yet peers, while the roster has room
findReplacementConnections(reg, ids, removedNodeID) ==
  SelectSeq(getAllNodeIDs(reg),
            LAMBDA n : /\ ~(n = LocalId \/ n = removedNodeID)
                       /\ ~hasPeer(ids, n) /\ getPeerCount(ids) < MAX_PEERS)

RECURSIVE establishReplacementConnections(_, _, _, _)
establishReplacementConnections(reg, ids, addrs, replacements) ==
  IF replacements = <<>> THEN [ids |-> ids, addrs |-> addrs]
  ELSE IF getPeerCount(ids) >= MAX_PEERS THEN [ids |-> ids, addrs |-> addrs]
  ELSE LET addr == getNodeAddress(reg, Head(replacements))
           r == IF addr.port # 0 THEN addPeerOn(ids, addrs, Head(replacements), addr)
                ELSE [ok |-> FALSE, ids |-> ids, addrs |-> addrs]
       IN establishReplacementConnections(reg, r.ids, r.addrs, Tail(replacements))

\* The world the membership manager works on: its records, the topology and
\* the roster.  stuck names the mutexes the calling thread is left blocked on.
World == [dnm |-> dnmRegistry_, reg |-> nodeRegistry_, adj |-> adjacencyList_,
          ids |-> peerIDs_, addrs |-> peerAddresses_, stuck |-> {}]

\* repairNetworkAfterNodeRemoval, called with nodesMutex_ held
repairNetworkAfterNodeRemoval(w, removedNodeID) ==
  IF ~isTopologyConnected(w.reg, w.adj) /\ relock = "blocks"
  THEN \* repairTopology locks topologyMutex_ and blocks in validateTopology
       [w EXCEPT !.stuck = {"topologyMutex_", "nodesMutex_"}]
  ELSE LET adj1 == IF ~isTopologyConnected(w.reg, w.adj)
                   THEN repairTopologyOn(w.reg, w.adj) ELSE w.adj
           replacements == findReplacementConnections(w.reg, w.ids, removedNodeID)
           r == establishReplacementConnections(w.reg, w.ids, w.addrs, replacements)
           \* checkNetworkIntegrity: validateTopology, then isTopologyConnected
           adj2 == validateTopologyOn(w.reg, adj1)
       IN [w EXCEPT !.adj = adj2, !.ids = r.ids, !.addrs = r.addrs]

\* removeNodeGracefully and removeNodeForced differ in the state the record
\* passes through (LEAVING, FAILED) before it is erased and in the callback
removeNodeOn(w, nodeID) ==
  IF nodeID \notin DOMAIN w.dnm THEN w
  ELSE LET p == removePeerOn(w.ids, w.addrs, nodeID)
           g == IF nodeID \in DOMAIN w.reg
                THEN removeNodeFromGraph(w.reg, w.adj, nodeID)
                ELSE [reg |-> w.reg, adj |-> w.adj]
           w1 == [w EXCEPT !.dnm = MapErase(w.dnm, nodeID), !.ids = p.ids,
                           !.addrs = p.addrs, !.reg = g.reg, !.adj = g.adj]
       IN repairNetworkAfterNodeRemoval(w1, nodeID)

RECURSIVE removeAllForced(_, _)
\* the loop "for (NodeID nodeID : failedNodes) removeNodeForced(nodeID)"
removeAllForced(w, failedNodes) ==
  IF failedNodes = <<>> \/ w.stuck # {} THEN w
  ELSE removeAllForced(removeNodeOn(w, Head(failedNodes)), Tail(failedNodes))

IsStale(info, timeoutSeconds) == now - info.lastSeen > timeoutSeconds

\* the records after the inspection loop
sweepRecords(dnm, timeoutSeconds) ==
  [id \in DOMAIN dnm |->
     IF dnm[id].state # "ACTIVE" THEN dnm[id]
     ELSE IF IsStale(dnm[id], timeoutSeconds)
          THEN [dnm[id] EXCEPT !.failureCount = @ + 1]
          ELSE [dnm[id] EXCEPT !.failureCount = 0]]

\* failedNodes, in map order
sweepFailedNodes(dnm, timeoutSeconds) ==
  LET d1 == sweepRecords(dnm, timeoutSeconds) IN
  SortedSeq({id \in DOMAIN dnm : /\ dnm[id].state = "ACTIVE"
                                 /\ IsStale(dnm[id], timeoutSeconds)
                                 /\ shouldRemoveNode(d1[id])})

\* write a world back to the variables; a thread left blocked keeps its mutexes
Commit(w) ==
  /\ dnmRegistry_' = w.dnm
  /\ nodeRegistry_' = w.reg
  /\ adjacencyList_' = w.adj
  /\ peerIDs_' = w.ids
  /\ peerAddresses_' = w.addrs
  /\ nodesMutex_' = IF "nodesMutex_" \in w.stuck THEN Caller ELSE nodesMutex_
  /\ topologyMutex_' = IF "topologyMutex_" \in w.stuck THEN Caller ELSE topologyMutex_

DNM_addNode(nodeID, address) ==
  /\ IF ~validateNodeAddition(nodeID, address)
     THEN /\ ret' = [op |-> "DNM_addNode", id |-> nodeID, val |-> FALSE]
          /\ UNCHANGED <<topoVars, nodeVars, dnmVars>>
     ELSE /\ nodesMutex_ = 0
          /\ IF nodeID \in DOMAIN dnmRegistry_
             THEN /\ ret' = [op |-> "DNM_addNode", id |-> nodeID, val |-> FALSE]
                  /\ UNCHANGED <<topoVars, nodeVars, dnmVars>>
             ELSE /\ topologyMutex_ = 0
                  /\ IF nodeID \in DOMAIN nodeRegistry_
                     THEN \* topologyManager_->addNode failed: the JOINING record is erased
                          /\ ret' = [op |-> "DNM_addNode", id |-> nodeID, val |-> FALSE]
                          /\ UNCHANGED <<topoVars, nodeVars, dnmVars>>
                     ELSE LET p == IF getPeerCount(peerIDs_) < MAX_PEERS
                                   THEN addPeerOn(peerIDs_, peerAddresses_, nodeID, address)
                                   ELSE [ok |-> FALSE, ids |-> peerIDs_, addrs |-> peerAddresses_]
                          IN /\ nodeRegistry_' = MapPut(nodeRegistry_, nodeID, address)
                             /\ adjacencyList_' = MapPut(adjacencyList_, nodeID, {})
                             /\ peerIDs_' = p.ids
                             /\ peerAddresses_' = p.addrs
                             /\ dnmRegistry_' = MapPut(dnmRegistry_, nodeID,
                                   [address |-> address, state |-> "ACTIVE",
                                    joinTime |-> now, lastSeen |-> now, failureCount |-> 0])
                             /\ ret' = [op |-> "DNM_addNode", id |-> nodeID, val |-> TRUE]
                             /\ UNCHANGED <<topologyMutex_, nodesMutex_, lastSeen_>>
  /\ UNCHANGED <<relock, now, others>>

removeNodeGracefully(nodeID) ==
  /\ nodesMutex_ = 0
  /\ topologyMutex_ = 0
  /\ LET w == removeNodeOn(World, nodeID) IN
     /\ Commit(w)
     /\ ret' = [op |-> "removeNodeGracefully", id |-> nodeID,
                val |-> nodeID \in DOMAIN dnmRegistry_, returned |-> w.stuck = {}]
  /\ UNCHANGED <<relock, lastSeen_, now, others>>

removeNodeForced(nodeID) ==
  /\ nodesMutex_ = 0
  /\ topologyMutex_ = 0
  /\ LET w == removeNodeOn(World, nodeID) IN
     /\ Commit(w)
     /\ ret' = [op |-> "removeNodeForced", id |-> nodeID,
                val |-> nodeID \in DOMAIN dnmRegistry_, returned |-> w.stuck = {}]
  /\ UNCHANGED <<relock, lastSeen_, now, others>>

setNodeState(nodeID, state) ==
  /\ nodesMutex_ = 0
  /\ dnmRegistry_' = IF nodeID \in DOMAIN dnmRegistry_
                     THEN [dnmRegistry_ EXCEPT ![nodeID].state = state]
                     ELSE dnmRegistry_
  /\ ret' = [op |-> "setNodeState", id |-> nodeID]
  /\ UNCHANGED <<relock, topoVars, nodeVars, nodesMutex_, now, others>>

handleTopologyChange(changedNodeID, added) ==
  /\ nodesMutex_ = 0
  /\ dnmRegistry_' = IF changedNodeID \in DOMAIN dnmRegistry_
                     THEN [dnmRegistry_ EXCEPT ![changedNodeID].state =
                             IF added THEN "ACTIVE" ELSE "FAILED"]
                     ELSE dnmRegistry_
  /\ ret' = [op |-> "handleTopologyChange", id |-> changedNodeID]
  /\ UNCHANGED <<relock, topoVars, nodeVars, nodesMutex_, now, others>>

\* detectFailedNodes holds nodesMutex_ over the inspection loop and calls
\* incrementFailureCount / shouldRemoveNode / resetFailureCount inside it,
\* each of which locks nodesMutex_ again: the first ACTIVE record re-locks.
detectFailedNodes(timeoutSeconds) ==
  /\ nodesMutex_ = 0
  /\ IF (\E id \in DOMAIN dnmRegistry_ : dnmRegistry_[id].state = "ACTIVE") /\ relock = "blocks"
     THEN /\ nodesMutex_' = Caller
          /\ ret' = [op |-> "detectFailedNodes", returned |-> FALSE]
          /\ UNCHANGED <<topoVars, nodeVars, dnmRegistry_>>
     ELSE LET failedNodes == sweepFailedNodes(dnmRegistry_, timeoutSeconds)
              w0 == [World EXCEPT !.dnm = sweepRecords(dnmRegistry_, timeoutSeconds)]
              w == removeAllForced(w0, failedNodes)
          IN /\ (failedNodes # <<>> => topologyMutex_ = 0)
             /\ Commit(w)
             /\ ret' = [op |-> "detectFailedNodes", returned |-> w.stuck = {}]
             /\ UNCHANGED lastSeen_
  /\ UNCHANGED <<relock, now, others>>

\* MessageHandler::handleHeartbeat: node_->updateLastSeen() and a Heartbeat
\* reply handed to the NetworkManager
handleHeartbeat(senderID) ==
  /\ lastSeen_' = now
  /\ ret' = [op |-> "handleHeartbeat", sender |-> senderID,
             reply |-> [type |-> "HEARTBEAT", senderID |-> LocalId, receiverID |-> senderID]]
  /\ UNCHANGED <<relock, topoVars, peerIDs_, peerAddresses_, dnmVars, now, others>>

\* the wall clock advances
Tick ==
  /\ now + ClockStep <= MaxClock
  /\ now' = now + ClockStep
  /\ ret' = [op |-> "tick"]
  /\ UNCHANGED <<relock, topoVars, nodeVars, dnmVars, others>>

InitMembership == InitTopology

\* Failure detection: peers join and leave, heartbeats arrive, the clock
\* advances and the sweep runs
NextMembership ==
  \/ \E id \in DnmIds, a \in DnmAddresses : DNM_addNode(id, a)
  \/ \E id \in MemberIds : removeNodeGracefully(id)
  \/ \E id \in MemberIds : removeNodeForced(id)
  \/ \E id \in MemberIds, added \in BOOLEAN : handleTopologyChange(id, added)
  \/ detectFailedNodes(NODE_TIMEOUT_SEC)
  \/ \E id \in MemberIds : handleHeartbeat(id)
  \/ Tick

SpecMembership == InitMembership /\ [][NextMembership]_vars

\* Lifecycle: every operation of the membership manager that writes a
\* record's state, at one instant of the clock
NextLifecycle ==
  \/ \E id \in DnmIds, a \in DnmAddresses : DNM_addNode(id, a)
  \/ \E id \in MemberIds : removeNodeGracefully(id)
  \/ \E id \in MemberIds : removeNodeForced(id)
  \/ \E id \in MemberIds, st \in NodeStates : setNodeState(id, st)
  \/ \E id \in MemberIds, added \in BOOLEAN : handleTopologyChange(id, added)
  \/ detectFailedNodes(NODE_TIMEOUT_SEC)

SpecLifecycle == InitMembership /\ [][NextLifecycle]_vars

(***************************************************************************)
(* C6: an Active record whose lastSeen is older than the timeout is        *)
(* force-removed by the third consecutive detectFailedNodes sweep and not  *)
(* by the first or second (each of those adds one to failureCount); after  *)
(* the third it is absent from the membership table, the roster and the    *)
(* topology; a sweep that finds the peer within the timeout resets its     *)
(* failureCount to 0.                                                      *)
(***************************************************************************)
C6_ThirdSweepRemoves ==
  [][ ret'.op = "detectFailedNodes" =>
        \A P \in DOMAIN dnmRegistry_ :
           dnmRegistry_[P].state = "ACTIVE" =>
              IF now - dnmRegistry_[P].lastSeen > NODE_TIMEOUT_SEC
              THEN IF dnmRegistry_[P].failureCount = 2
                   THEN /\ P \notin DOMAIN dnmRegistry_'
                        /\ P \notin Range(peerIDs_')
                        /\ P \notin DOMAIN nodeRegistry_'
                   ELSE /\ P \in DOMAIN dnmRegistry_'
                        /\ dnmRegistry_'[P].failureCount = dnmRegistry_[P].failureCount + 1
              ELSE /\ P \in DOMAIN dnmRegistry_'
                   /\ dnmRegistry_'[P].failureCount = 0 ]_vars

(***************************************************************************)
(* C7: processing a Heartbeat from sender S refreshes the lastSeen of S's  *)
(* membership record, so that a peer whose heartbeats keep arriving is not *)
(* counted as timed out.                                                   *)
(***************************************************************************)
C7_HeartbeatRefreshesLastSeen ==
  (ret.op = "handleHeartbeat" /\ ret.sender \in DOMAIN dnmRegistry_) =>
     dnmRegistry_[ret.sender].lastSeen = now

(***************************************************************************)
(* C8: no membership record changes from Active to Joining, and a record   *)
(* in state Failed keeps that state until it is deleted.                   *)
(***************************************************************************)
C8_LifecycleProgression ==
  [][ \A id \in DOMAIN dnmRegistry_ \cap DOMAIN dnmRegistry_' :
        /\ dnmRegistry_[id].state = "ACTIVE" => dnmRegistry_'[id].state # "JOINING"
        /\ dnmRegistry_[id].state = "FAILED" => dnmRegistry_'[id].state = "FAILED" ]_vars


(***************************************************************************)
(* Node alone: addPeer and removePeer called in any order                  *)
(***************************************************************************)
\* a roster that earlier addPeer calls have filled to FreeSlots below the cap
PrefilledId(i) == 100 + i
PrefilledAddress(i) == [host |-> "10.0.1.1", port |-> 9000 + i]
Prefilled(n) == [ids |-> [i \in 1..n |-> PrefilledId(i)],
                 addrs |-> [i \in 1..n |-> PrefilledAddress(i)]]

PeerPool == 2..(MaxPeerIds + 1)
FreeSlots == MaxPeerIds - 1

\* the ids callers pass: fresh ones and two peers of the filled roster
RosterIds == PeerPool \cup {PrefilledId(1), PrefilledId(2)}

addPeer(peerID, peerAddress) ==
  LET r == addPeerOn(peerIDs_, peerAddresses_, peerID, peerAddress) IN
  /\ peerIDs_' = r.ids
  /\ peerAddresses_' = r.addrs
  /\ ret' = [op |-> "addPeer", id |-> peerID, addr |-> peerAddress, val |-> r.ok]
  /\ UNCHANGED <<relock, topoVars, lastSeen_, dnmVars, now, others>>

removePeer(peerID) ==
  LET r == removePeerOn(peerIDs_, peerAddresses_, peerID) IN
  /\ peerIDs_' = r.ids
  /\ peerAddresses_' = r.addrs
  /\ ret' = [op |-> "removePeer", id |-> peerID, addr |-> NoAddress, val |-> r.ok]
  /\ UNCHANGED <<relock, topoVars, lastSeen_, dnmVars, now, others>>

InitRoster ==
  /\ relock \in RelockOutcomes
  /\ nodeRegistry_ = EmptyMap
  /\ adjacencyList_ = EmptyMap
  /\ topologyMutex_ = 0
  /\ \E n \in {0, MAX_PEERS - FreeSlots} :
        /\ peerIDs_ = Prefilled(n).ids
        /\ peerAddresses_ = Prefilled(n).addrs
  /\ lastSeen_ = 0
  /\ dnmRegistry_ = EmptyMap
  /\ nodesMutex_ = 0
  /\ now = 0
  /\ pendingRegistrationsMutex_ = 0
  /\ pc = EmptyMap
  /\ ret = [op |-> "none"]
  /\ InitExt

NextRoster ==
  \/ \E id \in RosterIds, a \in TopoAddresses : addPeer(id, a)
  \/ \E id \in RosterIds : removePeer(id)

SpecRoster == InitRoster /\ [][NextRoster]_vars

\* the (id, address) associations of the roster
Pairs(ids, addrs) == {<<ids[i], addrs[i]>> : i \in 1..Len(ids)}

(***************************************************************************)
(* C10: after any sequence of addPeer and removePeer calls, rejected ones  *)
(* included, the id list and the address list have equal length, the       *)
(* address at position i is the one supplied when the id at position i was *)
(* added (every association is either the one the call just supplied or    *)
(* one that was there before), and no id occurs twice.                     *)
(***************************************************************************)
C10_RosterPairing ==
  [][ /\ Len(peerIDs_') = Len(peerAddresses_')
      /\ \A i, j \in 1..Len(peerIDs_') : peerIDs_'[i] = peerIDs_'[j] => i = j
      /\ Pairs(peerIDs_', peerAddresses_') \subseteq
            Pairs(peerIDs_, peerAddresses_) \cup {<<ret'.id, ret'.addr>>}
      /\ (ret'.op = "addPeer" /\ ret'.val) =>
            /\ peerIDs_'[Len(peerIDs_')] = ret'.id
            /\ peerAddresses_'[Len(peerIDs_')] = ret'.addr
      /\ (ret'.op = "removePeer" /\ ret'.val) =>
            /\ Len(peerIDs_') = Len(peerIDs_) - 1
            /\ ret'.id \notin Range(peerIDs_') ]_vars

\* a peer that is not the last one was removed from a roster whose ids were
\* added with different addresses
C10_Witness ==
  /\ ret.op = "removePeer" /\ ret.val
  /\ Len(peerIDs_) >= 2
  /\ \E i \in 1..Len(peerIDs_) : peerIDs_[i] > ret.id
  /\ \E i, j \in 1..Len(peerIDs_) : peerAddresses_[i] # peerAddresses_[j]

(***************************************************************************)
(* Concurrent roster writers.  Each thread is idle or inside one call; a   *)
(* step is one critical section of the call (one lock_guard scope of       *)
(* peersMutex_ or topologyMutex_), together with the local code up to the  *)
(* next one.  nodesMutex_ and pendingRegistrationsMutex_ are held across   *)
(* steps by the thread that took them.                                     *)
(***************************************************************************)
Threads == 1..MaxThreads

\* Node::getAddress() of the local node
LocalAddress == [host |-> "10.0.0.9", port |-> 8888]

Idle == [op |-> "idle", at |-> "idle", nodeID |-> 0, address |-> NoAddress,
         allNodes |-> <<>>, replacements |-> <<>>]

Frame(op, at, nodeID, address, allNodes, replacements) ==
  [op |-> op, at |-> at, nodeID |-> nodeID, address |-> address,
   allNodes |-> allNodes, replacements |-> replacements]

At(t, op, at) == pc[t].op = op /\ pc[t].at = at

Goto(t, frame) == pc' = [pc EXCEPT ![t] = frame]

Return(t) == pc' = [pc EXCEPT ![t] = Idle]

\* ---- Node::addPeer called directly --------------------------------------
Thread_addPeer(t, peerID, peerAddress) ==
  /\ pc[t] = Idle
  /\ LET r == addPeerOn(peerIDs_, peerAddresses_, peerID, peerAddress) IN
     /\ peerIDs_' = r.ids
     /\ peerAddresses_' = r.addrs
  /\ UNCHANGED <<relock, topoVars, lastSeen_, dnmVars, now, others, ret, ext>>

\* ---- DynamicNodeManager::addNode ----------------------------------------
\* validation, lock_guard(nodesMutex_), the duplicate check, the JOINING record
addNode_lock(t, nodeID, address) ==
  /\ pc[t] = Idle
  /\ IF ~validateNodeAddition(nodeID, address)
     THEN UNCHANGED <<dnmVars, pc>>
     ELSE /\ nodesMutex_ = 0
          /\ IF nodeID \in DOMAIN dnmRegistry_
             THEN UNCHANGED <<dnmVars, pc>>
             ELSE /\ nodesMutex_' = t
                  /\ dnmRegistry_' = MapPut(dnmRegistry_, nodeID,
                        [address |-> address, state |-> "JOINING",
                         joinTime |-> now, lastSeen |-> now, failureCount |-> 0])
                  /\ Goto(t, Frame("addNode", "topologyManager_->addNode",
                                   nodeID, address, <<>>, <<>>))
  /\ UNCHANGED <<relock, topoVars, nodeVars, now, pendingRegistrationsMutex_, ret, ext>>

addNode_topology(t) ==
  /\ At(t, "addNode", "topologyManager_->addNode")
  /\ topologyMutex_ = 0
  /\ IF pc[t].nodeID \in DOMAIN nodeRegistry_
     THEN /\ dnmRegistry_' = MapErase(dnmRegistry_, pc[t].nodeID)
          /\ nodesMutex_' = 0
          /\ Return(t)
          /\ UNCHANGED <<nodeRegistry_, adjacencyList_>>
     ELSE /\ nodeRegistry_' = MapPut(nodeRegistry_, pc[t].nodeID, pc[t].address)
          /\ adjacencyList_' = MapPut(adjacencyList_, pc[t].nodeID, {})
          /\ Goto(t, [pc[t] EXCEPT !.at = "getPeerCount"])
          /\ UNCHANGED dnmVars
  /\ UNCHANGED <<relock, topologyMutex_, nodeVars, now, pendingRegistrationsMutex_, ret, ext>>

addNode_getPeerCount(t) ==
  /\ At(t, "addNode", "getPeerCount")
  /\ IF getPeerCount(peerIDs_) < MAX_PEERS
     THEN Goto(t, [pc[t] EXCEPT !.at = "addPeer"])
     ELSE Goto(t, [pc[t] EXCEPT !.at = "return"])
  /\ UNCHANGED <<relock, topoVars, nodeVars, dnmVars, now, pendingRegistrationsMutex_, ret, ext>>

addNode_addPeer(t) ==
  /\ At(t, "addNode", "addPeer")
  /\ LET r == addPeerOn(peerIDs_, peerAddresses_, pc[t].nodeID, pc[t].address) IN
     /\ peerIDs_' = r.ids
     /\ peerAddresses_' = r.addrs
  /\ Goto(t, [pc[t] EXCEPT !.at = "return"])
  /\ UNCHANGED <<relock, topoVars, lastSeen_, dnmVars, now, pendingRegistrationsMutex_, ret, ext>>

\* the ACTIVE record is stored and the lock_guard leaves scope
addNode_return(t) ==
  /\ At(t, "addNode", "return")
  /\ dnmRegistry_' = MapPut(dnmRegistry_, pc[t].nodeID,
        [address |-> pc[t].address, state |-> "ACTIVE",
         joinTime |-> dnmRegistry_[pc[t].nodeID].joinTime,
         lastSeen |-> dnmRegistry_[pc[t].nodeID].lastSeen, failureCount |-> 0])
  /\ nodesMutex_' = 0
  /\ Return(t)
  /\ UNCHANGED <<relock, topoVars, nodeVars, now, pendingRegistrationsMutex_, ret, ext>>

\* ---- DynamicNodeManager::ensureConnectivity -----------------------------
\* the loop moves on to the next id of its snapshot, or leaves the loop
ensureConnectivity_continue(frame) ==
  IF Tail(frame.allNodes) = <<>>
  THEN [frame EXCEPT !.at = "isTopologyConnected", !.allNodes = <<>>, !.address = NoAddress]
  ELSE [frame EXCEPT !.at = "hasPeer", !.allNodes = Tail(@), !.address = NoAddress]

ensureConnectivity_getPeerCount(t) ==
  /\ pc[t] = Idle
  /\ IF getPeerCount(peerIDs_) < MAX_PEERS
     THEN Goto(t, Frame("ensureConnectivity", "getAllNodeIDs", 0, NoAddress, <<>>, <<>>))
     ELSE Goto(t, Frame("ensureConnectivity", "isTopologyConnected", 0, NoAddress, <<>>, <<>>))
  /\ UNCHANGED <<relock, topoVars, nodeVars, dnmVars, now, pendingRegistrationsMutex_, ret, ext>>

ensureConnectivity_getAllNodeIDs(t) ==
  /\ At(t, "ensureConnectivity", "getAllNodeIDs")
  /\ topologyMutex_ = 0
  /\ LET allNodes == getAllNodeIDs(nodeRegistry_) IN
     IF allNodes = <<>>
     THEN Goto(t, [pc[t] EXCEPT !.at = "isTopologyConnected"])
     ELSE Goto(t, [pc[t] EXCEPT !.at = "hasPeer", !.allNodes = allNodes])
  /\ UNCHANGED <<relock, topoVars, nodeVars, dnmVars, now, pendingRegistrationsMutex_, ret, ext>>

ensureConnectivity_hasPeer(t) ==
  /\ At(t, "ensureConnectivity", "hasPeer")
  /\ LET nodeID == Head(pc[t].allNodes) IN
     IF nodeID = LocalId \/ hasPeer(peerIDs_, nodeID)
     THEN Goto(t, ensureConnectivity_continue(pc[t]))
     ELSE Goto(t, [pc[t] EXCEPT !.at = "getPeerCount"])
  /\ UNCHANGED <<relock, topoVars, nodeVars, dnmVars, now, pendingRegistrationsMutex_, ret, ext>>

ensureConnectivity_loopGetPeerCount(t) ==
  /\ At(t, "ensureConnectivity", "getPeerCount")
  /\ IF getPeerCount(peerIDs_) >= MAX_PEERS
     THEN Goto(t, [pc[t] EXCEPT !.at = "isTopologyConnected", !.allNodes = <<>>])
     ELSE Goto(t, [pc[t] EXCEPT !.at = "getNodeAddress"])
  /\ UNCHANGED <<relock, topoVars, nodeVars, dnmVars, now, pendingRegistrationsMutex_, ret, ext>>

ensureConnectivity_getNodeAddress(t) ==
  /\ At(t, "ensureConnectivity", "getNodeAddress")
  /\ topologyMutex_ = 0
  /\ LET addr == getNodeAddress(nodeRegistry_, Head(pc[t].allNodes)) IN
     IF addr.port # 0
     THEN Goto(t, [pc[t] EXCEPT !.at = "addPeer", !.address = addr])
     ELSE Goto(t, ensureConnectivity_continue(pc[t]))
  /\ UNCHANGED <<relock, topoVars, nodeVars, dnmVars, now, pendingRegistrationsMutex_, ret, ext>>

ensureConnectivity_addPeer(t) ==
  /\ At(t, "ensureConnectivity", "addPeer")
  /\ LET r == addPeerOn(peerIDs_, peerAddresses_, Head(pc[t].allNodes), pc[t].address) IN
     /\ peerIDs_' = r.ids
     /\ peerAddresses_' = r.addrs
  /\ Goto(t, ensureConnectivity_continue(pc[t]))
  /\ UNCHANGED <<relock, topoVars, lastSeen_, dnmVars, now, pendingRegistrationsMutex_, ret, ext>>

ensureConnectivity_isTopologyConnected(t) ==
  /\ At(t, "ensureConnectivity", "isTopologyConnected")
  /\ topologyMutex_ = 0
  /\ Return(t)
  /\ UNCHANGED <<relock, topoVars, nodeVars, dnmVars, now, pendingRegistrationsMutex_, ret, ext>>

\* ---- DynamicNodeManager::recoverFromNodeFailure -------------------------
\* findReplacementConnections moves on to the next id; at the end of its
\* snapshot recoverFromNodeFailure returns if it found none and otherwise
\* enters establishReplacementConnections
findReplacementConnections_continue(frame) ==
  IF Tail(frame.allNodes) # <<>>
  THEN [frame EXCEPT !.at = "find.hasPeer", !.allNodes = Tail(@)]
  ELSE IF frame.replacements = <<>> THEN Idle
  ELSE [frame EXCEPT !.at = "establish.getPeerCount", !.allNodes = <<>>]

establishReplacementConnections_continue(frame) ==
  IF Tail(frame.replacements) = <<>> THEN Idle
  ELSE [frame EXCEPT !.at = "establish.getPeerCount", !.replacements = Tail(@),
                     !.address = NoAddress]

recoverFromNodeFailure_getAllNodeIDs(t, failedNodeID) ==
  /\ pc[t] = Idle
  /\ topologyMutex_ = 0
  /\ LET allNodes == getAllNodeIDs(nodeRegistry_) IN
     IF allNodes = <<>>
     THEN UNCHANGED pc
     ELSE Goto(t, Frame("recoverFromNodeFailure", "find.hasPeer", failedNodeID,
                        NoAddress, allNodes, <<>>))
  /\ UNCHANGED <<relock, topoVars, nodeVars, dnmVars, now, pendingRegistrationsMutex_, ret, ext>>

findReplacementConnections_hasPeer(t) ==
  /\ At(t, "recoverFromNodeFailure", "find.hasPeer")
  /\ LET nodeID == Head(pc[t].allNodes) IN
     IF nodeID = LocalId \/ nodeID = pc[t].nodeID \/ hasPeer(peerIDs_, nodeID)
     THEN Goto(t, findReplacementConnections_continue(pc[t]))
     ELSE Goto(t, [pc[t] EXCEPT !.at = "find.getPeerCount"])
  /\ UNCHANGED <<relock, topoVars, nodeVars, dnmVars, now, pendingRegistrationsMutex_, ret, ext>>

findReplacementConnections_getPeerCount(t) ==
  /\ At(t, "recoverFromNodeFailure", "find.getPeerCount")
  /\ IF getPeerCount(peerIDs_) < MAX_PEERS
     THEN Goto(t, findReplacementConnections_continue(
                     [pc[t] EXCEPT !.replacements = Append(@, Head(pc[t].allNodes))]))
     ELSE Goto(t, findReplacementConnections_continue(pc[t]))
  /\ UNCHANGED <<relock, topoVars, nodeVars, dnmVars, now, pendingRegistrationsMutex_, ret, ext>>

establishReplacementConnections_getPeerCount(t) ==
  /\ At(t, "recoverFromNodeFailure", "establish.getPeerCount")
  /\ IF getPeerCount(peerIDs_) >= MAX_PEERS
     THEN Return(t)
     ELSE Goto(t, [pc[t] EXCEPT !.at = "establish.getNodeAddress"])
  /\ UNCHANGED <<relock, topoVars, nodeVars, dnmVars, now, pendingRegistrationsMutex_, ret, ext>>

establishReplacementConnections_getNodeAddress(t) ==
  /\ At(t, "recoverFromNodeFailure", "establish.getNodeAddress")
  /\ topologyMutex_ = 0
  /\ LET addr == getNodeAddress(nodeRegistry_, Head(pc[t].replacements)) IN
     IF addr.port # 0
     THEN Goto(t, [pc[t] EXCEPT !.at = "establish.addPeer", !.address = addr])
     ELSE Goto(t, establishReplacementConnections_continue(pc[t]))
  /\ UNCHANGED <<relock, topoVars, nodeVars, dnmVars, now, pendingRegistrationsMutex_, ret, ext>>

establishReplacementConnections_addPeer(t) ==
  /\ At(t, "recoverFromNodeFailure", "establish.addPeer")
  /\ LET r == addPeerOn(peerIDs_, peerAddresses_, Head(pc[t].replacements), pc[t].address) IN
     /\ peerIDs_' = r.ids
     /\ peerAddresses_' = r.addrs
  /\ Goto(t, establishReplacementConnections_continue(pc[t]))
  /\ UNCHANGED <<relock, topoVars, lastSeen_, dnmVars, now, pendingRegistrationsMutex_, ret, ext>>

\* ---- NodeRegistration::handleRegistrationRequest ------------------------
validateNodeID(nodeID) == nodeID # 0 /\ nodeID # LocalId

validateAddress(address) ==
  /\ ~(address.host = "" \/ address.port = 0)
  /\ ~(address.port < 1024 \/ address.port > 65535)
  /\ address # LocalAddress

\* request.timestamp is kept in seconds; a request is too old after 60 s
validateRegistrationRequest(reg, request) ==
  /\ validateNodeID(request.nodeID)
  /\ validateAddress(request.address)
  /\ request.nodeID \notin DOMAIN reg
  /\ ~(now - request.timestamp > 60)

\* no authorizationCallback_ is installed
handleRegistrationRequest_validate(t, request) ==
  /\ pc[t] = Idle
  /\ topologyMutex_ = 0
  /\ IF ~validateRegistrationRequest(nodeRegistry_, request)
     THEN UNCHANGED pc
     ELSE Goto(t, Frame("handleRegistrationRequest", "getPeerCount",
                        request.nodeID, request.address, <<>>, <<>>))
  /\ UNCHANGED <<relock, topoVars, nodeVars, dnmVars, now, pendingRegistrationsMutex_, ret, ext>>

\* a full roster: rejectRegistration takes pendingRegistrationsMutex_ for the
\* status update and the request returns false
handleRegistrationRequest_getPeerCount(t) ==
  /\ At(t, "handleRegistrationRequest", "getPeerCount")
  /\ IF getPeerCount(peerIDs_) >= MAX_PEERS
     THEN /\ pendingRegistrationsMutex_ = 0
          /\ Return(t)
     ELSE Goto(t, [pc[t] EXCEPT !.at = "acceptRegistration"])
  /\ UNCHANGED <<relock, topoVars, nodeVars, dnmVars, now, pendingRegistrationsMutex_, ret, ext>>

acceptRegistration_addNode(t) ==
  /\ At(t, "handleRegistrationRequest", "acceptRegistration")
  /\ pendingRegistrationsMutex_ = 0
  /\ topologyMutex_ = 0
  /\ IF pc[t].nodeID \in DOMAIN nodeRegistry_
     THEN /\ Return(t)
          /\ UNCHANGED <<nodeRegistry_, adjacencyList_, pendingRegistrationsMutex_>>
     ELSE /\ nodeRegistry_' = MapPut(nodeRegistry_, pc[t].nodeID, pc[t].address)
          /\ adjacencyList_' = MapPut(adjacencyList_, pc[t].nodeID, {})
          /\ pendingRegistrationsMutex_' = t
          /\ Goto(t, [pc[t] EXCEPT !.at = "addPeer"])
  /\ UNCHANGED <<relock, topologyMutex_, nodeVars, dnmVars, now, ret, ext>>

acceptRegistration_addPeer(t) ==
  /\ At(t, "handleRegistrationRequest", "addPeer")
  /\ LET r == addPeerOn(peerIDs_, peerAddresses_, pc[t].nodeID, pc[t].address) IN
     /\ peerIDs_' = r.ids
     /\ peerAddresses_' = r.addrs
     /\ IF r.ok
        THEN /\ pendingRegistrationsMutex_' = 0
             /\ Return(t)
        ELSE /\ Goto(t, [pc[t] EXCEPT !.at = "removeNode"])
             /\ UNCHANGED pendingRegistrationsMutex_
  /\ UNCHANGED <<relock, topoVars, lastSeen_, dnmVars, now, ret, ext>>

\* acceptRegistration returning false after a refused addPeer without
\* taking the node out of the topology again
acceptRegistration_noRollback(t) ==
  /\ At(t, "handleRegistrationRequest", "removeNode")
  /\ topologyMutex_ = 0
  /\ pendingRegistrationsMutex_' = 0
  /\ Return(t)
  /\ UNCHANGED <<relock, topoVars, nodeVars, dnmVars, now, ret, ext>>

acceptRegistration_removeNode(t) ==
  /\ At(t, "handleRegistrationRequest", "removeNode")
  /\ topologyMutex_ = 0
  /\ IF pc[t].nodeID \notin DOMAIN nodeRegistry_
     THEN UNCHANGED <<nodeRegistry_, adjacencyList_>>
     ELSE LET g == removeNodeFromGraph(nodeRegistry_, adjacencyList_, pc[t].nodeID) IN
          /\ nodeRegistry_' = g.reg
          /\ adjacencyList_' = g.adj
  /\ pendingRegistrationsMutex_' = 0
  /\ Return(t)
  /\ UNCHANGED <<relock, topologyMutex_, nodeVars, dnmVars, now, ret, ext>>

\* ---- the threads --------------------------------------------------------
RaceAddresses == {Addr1}

Requests == [nodeID : PeerPool, address : RaceAddresses, timestamp : {0}]

\* the roster is FreeSlots below the cap when the threads start
InitRosterRace ==
  /\ relock \in RelockOutcomes
  /\ nodeRegistry_ = EmptyMap
  /\ adjacencyList_ = EmptyMap
  /\ topologyMutex_ = 0
  /\ peerIDs_ = Prefilled(MAX_PEERS - FreeSlots).ids
  /\ peerAddresses_ = Prefilled(MAX_PEERS - FreeSlots).addrs
  /\ lastSeen_ = 0
  /\ dnmRegistry_ = EmptyMap
  /\ nodesMutex_ = 0
  /\ now = 0
  /\ pendingRegistrationsMutex_ = 0
  /\ pc = [t \in Threads |-> Idle]
  /\ ret = [op |-> "none"]
  /\ InitExt

NextRosterRace ==
  \E t \in Threads :
    \/ \E id \in PeerPool, a \in RaceAddresses : Thread_addPeer(t, id, a)
    \/ \E id \in PeerPool, a \in RaceAddresses : addNode_lock(t, id, a)
    \/ addNode_topology(t)
    \/ addNode_getPeerCount(t)
    \/ addNode_addPeer(t)
    \/ addNode_return(t)
    \/ ensureConnectivity_getPeerCount(t)
    \/ ensureConnectivity_getAllNodeIDs(t)
    \/ ensureConnectivity_hasPeer(t)
    \/ ensureConnectivity_loopGetPeerCount(t)
    \/ ensureConnectivity_getNodeAddress(t)
    \/ ensureConnectivity_addPeer(t)
    \/ ensureConnectivity_isTopologyConnected(t)
    \/ \E id \in PeerPool : recoverFromNodeFailure_getAllNodeIDs(t, id)
    \/ findReplacementConnections_hasPeer(t)
    \/ findReplacementConnections_getPeerCount(t)
    \/ establishReplacementConnections_getPeerCount(t)
    \/ establishReplacementConnections_getNodeAddress(t)
    \/ establishReplacementConnections_addPeer(t)
    \/ \E request \in Requests : handleRegistrationRequest_validate(t, request)
    \/ handleRegistrationRequest_getPeerCount(t)
    \/ acceptRegistration_addNode(t)
    \/ acceptRegistration_addPeer(t)
    \/ acceptRegistration_removeNode(t)

SpecRosterRace == InitRosterRace /\ [][NextRosterRace]_vars

(***************************************************************************)
(* C9: under any interleaving of addPeer, Membership addNode,              *)
(* ensureConnectivity, establishReplacementConnections and registration    *)
(* acceptance on concurrent threads, the local peer roster never holds     *)
(* more than MAX_PEERS entries.                                            *)
(***************************************************************************)
C9_RosterBound ==
  /\ Len(peerIDs_) <= MAX_PEERS
  /\ Len(peerAddresses_) <= MAX_PEERS

\* a registration passed the capacity check while the roster had room, another
\* thread took the last slot, and the registration's own addPeer was refused
C9_Witness ==
  \E t \in Threads :
     /\ At(t, "handleRegistrationRequest", "removeNode")
     /\ pc[t].nodeID \notin Range(peerIDs_)
     /\ Len(peerIDs_) = MAX_PEERS

(***************************************************************************)
(* NetworkManager::sendMessageToPeer: false when no socket is stored for   *)
(* the peer; with a socket, sendBytes succeeds or throws.  The possible    *)
(* results of one call.                                                    *)
(***************************************************************************)
sendMessageToPeer(connections, peerID) ==
  IF peerID \notin connections THEN {FALSE} ELSE {TRUE, FALSE}

\* one more invocation of a callback with the given arguments
Invoke(cb, key) ==
  IF key \in DOMAIN cb THEN [cb EXCEPT ![key] = @ + 1]
  ELSE [k \in DOMAIN cb \cup {key} |-> IF k = key THEN 1 ELSE cb[k]]

\* how often a callback was invoked with the given arguments
Invocations(cb, key) == IF key \in DOMAIN cb THEN cb[key] ELSE 0

(***************************************************************************)
(* ReliableMessaging.  A driver thread calls sendReliableMessage, the      *)
(* timer threads call retryPendingMessages, an ingress worker calls        *)
(* acknowledgeMessage; a step is one lock_guard(pendingMessagesMutex_)     *)
(* scope with the local code and the transport call that follow it.  The   *)
(* application has installed onMessageDelivered_ and onMessageFailed_.     *)
(***************************************************************************)
MaxMessages == 1
\* acknowledgements counted before the run is cut off
MaxAcks == 2

\* retryTimeout_ and maxRetries_, the defaults of retryPendingMessages
RETRY_TIMEOUT_SEC == 30
MAX_RETRIES == 3

MessageIds == 1..MaxMessages
\* the threads of the application that use the component: one that calls
\* sendReliableMessage and two that call retryPendingMessages, as the menu
\* of main's input thread and main's maintenance loop do
Drivers == {1}
Timers == {2, 3}
\* the peer reliable messages are addressed to
RmTarget == 2
\* the timeoutSeconds arguments of retryPendingMessages
RetryTimeouts == {0, RETRY_TIMEOUT_SEC}

RmIdle == [op |-> "idle", at |-> "idle", messageID |-> 0, targetID |-> 0,
           toRetry |-> <<>>, toFail |-> <<>>]

\* markMessageFailed erasing the record without invoking onMessageFailed_
markMessageFailedSilent(pm, cb, failed, messageID) ==
  IF messageID \notin DOMAIN pm THEN [pm |-> pm, cb |-> cb, failed |-> failed]
  ELSE [pm |-> MapErase(pm, messageID), cb |-> cb, failed |-> failed + 1]

\* markMessageFailed on the pending table, the callback log and failedMessages_
markMessageFailed(pm, cb, failed, messageID) ==
  IF messageID \notin DOMAIN pm THEN [pm |-> pm, cb |-> cb, failed |-> failed]
  ELSE [pm |-> MapErase(pm, messageID),
        cb |-> Invoke(cb, <<"onMessageFailed_", messageID, pm[messageID].destinationID>>),
        failed |-> failed + 1]

\* ---- sendReliableMessage -------------------------------------------------
sendReliableMessage_insert(t, targetID, messageID) ==
  /\ pc[t] = RmIdle
  /\ messageID \notin messageIDGen
  /\ messageIDGen' = messageIDGen \cup {messageID}
  /\ pendingMessages_' = MapPut(pendingMessages_, messageID,
        [destinationID |-> targetID, ackStatus |-> "PENDING", retryCount |-> 0,
         sendTime |-> now, lastRetry |-> now])
  /\ pc' = [pc EXCEPT ![t] = [RmIdle EXCEPT !.op = "sendReliableMessage",
                                !.at = "sendMessageToPeer",
                                !.messageID = messageID, !.targetID = targetID]]
  /\ UNCHANGED <<relock, topoVars, nodeVars, dnmVars, now, pendingRegistrationsMutex_, ret,
                 activeConnections_, sentMessages_, acknowledgedMessages_, failedMessages_,
                 routerVars, dxVars, callbacks, wire>>

sendReliableMessage_send(t) ==
  /\ pc[t].op = "sendReliableMessage" /\ pc[t].at = "sendMessageToPeer"
  /\ wire' = Append(wire, <<pc[t].targetID, "RELIABLE", pc[t].messageID, 0>>)
  /\ \E ok \in sendMessageToPeer(activeConnections_, pc[t].targetID) :
        IF ok
        THEN /\ sentMessages_' = sentMessages_ + 1
             /\ pc' = [pc EXCEPT ![t] = RmIdle]
             /\ ret' = [op |-> "sendReliableMessage", id |-> pc[t].messageID,
                        val |-> pc[t].messageID]
        ELSE /\ pc' = [pc EXCEPT ![t].at = "markMessageFailed"]
             /\ UNCHANGED <<sentMessages_, ret>>
  /\ UNCHANGED <<relock, topoVars, nodeVars, dnmVars, now, pendingRegistrationsMutex_,
                 activeConnections_, pendingMessages_, acknowledgedMessages_,
                 failedMessages_, messageIDGen, routerVars, dxVars, callbacks>>

sendReliableMessage_markMessageFailed(t) ==
  /\ pc[t].op = "sendReliableMessage" /\ pc[t].at = "markMessageFailed"
  /\ LET r == markMessageFailed(pendingMessages_, callbacks, failedMessages_, pc[t].messageID) IN
     /\ pendingMessages_' = r.pm
     /\ callbacks' = r.cb
     /\ failedMessages_' = r.failed
  /\ pc' = [pc EXCEPT ![t] = RmIdle]
  /\ ret' = [op |-> "sendReliableMessage", id |-> pc[t].messageID, val |-> 0]
  /\ UNCHANGED <<relock, topoVars, nodeVars, dnmVars, now, pendingRegistrationsMutex_,
                 activeConnections_, sentMessages_, acknowledgedMessages_, messageIDGen,
                 routerVars, dxVars, wire>>

\* ---- acknowledgeMessage, one lock_guard scope ----------------------------
acknowledgeMessage(messageID, senderID) ==
  /\ IF messageID \in DOMAIN pendingMessages_
     THEN /\ pendingMessages_' = [pendingMessages_ EXCEPT ![messageID].ackStatus = "ACKNOWLEDGED"]
          /\ acknowledgedMessages_' = acknowledgedMessages_ + 1
          /\ callbacks' = Invoke(callbacks, <<"onMessageDelivered_", messageID, senderID>>)
          /\ ret' = [op |-> "acknowledgeMessage", id |-> messageID, val |-> TRUE]
     ELSE /\ ret' = [op |-> "acknowledgeMessage", id |-> messageID, val |-> FALSE]
          /\ UNCHANGED <<pendingMessages_, acknowledgedMessages_, callbacks>>
  /\ UNCHANGED <<relock, topoVars, nodeVars, dnmVars, now, pendingRegistrationsMutex_, pc,
                 activeConnections_, sentMessages_, failedMessages_, messageIDGen,
                 routerVars, dxVars, wire>>

\* ---- retryPendingMessages -------------------------------------------------
\* the scan: the ids due for a retry and the ids due to fail, in map order
IsDue(msg, timeoutSeconds) ==
  msg.ackStatus # "ACKNOWLEDGED" /\ now - msg.lastRetry >= timeoutSeconds

\* the retry list with the bound maxRetries included
toRetryInclusive(pm, timeoutSeconds, maxRetries) ==
  SortedSeq({id \in DOMAIN pm : IsDue(pm[id], timeoutSeconds) /\ pm[id].retryCount <= maxRetries})

toRetry(pm, timeoutSeconds, maxRetries) ==
  SortedSeq({id \in DOMAIN pm : IsDue(pm[id], timeoutSeconds) /\ pm[id].retryCount < maxRetries})

toFail(pm, timeoutSeconds, maxRetries) ==
  SortedSeq({id \in DOMAIN pm : IsDue(pm[id], timeoutSeconds) /\ ~(pm[id].retryCount < maxRetries)})

\* where retryPendingMessages goes once the two lists are known or shortened
retryPendingMessages_continue(frame) ==
  IF frame.toRetry # <<>> THEN [frame EXCEPT !.at = "retry"]
  ELSE IF frame.toFail # <<>> THEN [frame EXCEPT !.at = "markMessageFailed"]
  ELSE RmIdle

retryPendingMessages_scan(t, timeoutSeconds, maxRetries) ==
  /\ pc[t] = RmIdle
  /\ pc' = [pc EXCEPT ![t] = retryPendingMessages_continue(
               [RmIdle EXCEPT !.op = "retryPendingMessages",
                              !.toRetry = toRetry(pendingMessages_, timeoutSeconds, maxRetries),
                              !.toFail = toFail(pendingMessages_, timeoutSeconds, maxRetries)])]
  /\ UNCHANGED <<relock, topoVars, nodeVars, dnmVars, now, pendingRegistrationsMutex_, ret, ext>>

\* one round of the retry loop: the record is looked up again, its retryCount
\* and lastRetry are updated, and the copy taken before is sent again
retryPendingMessages_retry(t) ==
  /\ pc[t].op = "retryPendingMessages" /\ pc[t].at = "retry"
  /\ LET msgID == Head(pc[t].toRetry) IN
     IF msgID \in DOMAIN pendingMessages_
     THEN /\ pendingMessages_' = [pendingMessages_ EXCEPT
                                    ![msgID].retryCount = @ + 1, ![msgID].lastRetry = now]
          /\ wire' = Append(wire, <<pendingMessages_[msgID].destinationID, "RELIABLE", msgID,
                                    pendingMessages_[msgID].retryCount + 1>>)
     ELSE UNCHANGED <<pendingMessages_, wire>>
  /\ pc' = [pc EXCEPT ![t] = retryPendingMessages_continue([pc[t] EXCEPT !.toRetry = Tail(@)])]
  /\ UNCHANGED <<relock, topoVars, nodeVars, dnmVars, now, pendingRegistrationsMutex_, ret,
                 activeConnections_, sentMessages_, acknowledgedMessages_, failedMessages_,
                 messageIDGen, routerVars, dxVars, callbacks>>

retryPendingMessages_markMessageFailed(t) ==
  /\ pc[t].op = "retryPendingMessages" /\ pc[t].at = "markMessageFailed"
  /\ LET r == markMessageFailed(pendingMessages_, callbacks, failedMessages_, Head(pc[t].toFail)) IN
     /\ pendingMessages_' = r.pm
     /\ callbacks' = r.cb
     /\ failedMessages_' = r.failed
  /\ pc' = [pc EXCEPT ![t] = retryPendingMessages_continue([pc[t] EXCEPT !.toFail = Tail(@)])]
  /\ UNCHANGED <<relock, topoVars, nodeVars, dnmVars, now, pendingRegistrationsMutex_, ret,
                 activeConnections_, sentMessages_, acknowledgedMessages_, messageIDGen,
                 routerVars, dxVars, wire>>

\* ---- cleanupAcknowledgedMessages, one lock_guard scope --------------------
cleanupAcknowledgedMessages(timeoutSeconds) ==
  /\ LET drop == {id \in DOMAIN pendingMessages_ :
                    /\ pendingMessages_[id].ackStatus = "ACKNOWLEDGED"
                    /\ now - pendingMessages_[id].sendTime > timeoutSeconds}
     IN pendingMessages_' = [id \in DOMAIN pendingMessages_ \ drop |-> pendingMessages_[id]]
  /\ ret' = [op |-> "cleanupAcknowledgedMessages"]
  /\ UNCHANGED <<relock, topoVars, nodeVars, dnmVars, now, pendingRegistrationsMutex_, pc,
                 activeConnections_, sentMessages_, acknowledgedMessages_, failedMessages_,
                 messageIDGen, routerVars, dxVars, callbacks, wire>>

\* getDeliveryRate, as the pair (numerator, denominator) of the percentage
getDeliveryRate == IF sentMessages_ = 0 THEN <<0, 1>>
                   ELSE <<acknowledgedMessages_ * 100, sentMessages_>>

(***************************************************************************)
(* The inbound path.  PeerConnectionHandler hands every message it parsed  *)
(* to the callback main installed with setMessageCallback; the callback    *)
(* has empty branches for DATA_CHUNK and MESSAGE_ACK and then calls        *)
(* MessageHandler::processMessage, which runs the handler registered for   *)
(* the type and otherwise only logs.                                       *)
(***************************************************************************)
\* the types MessageHandler's constructor registers a handler for
messageHandlers_ == {"JOIN_REQUEST", "JOIN_RESPONSE", "LEAVE_NOTIFICATION", "HEARTBEAT",
                     "DATA_MESSAGE", "TOPOLOGY_UPDATE", "PEER_DISCOVERY"}

\* does processMessage run a handler for a message of this type
processMessage(type) == type \in messageHandlers_

\* the callback on a MESSAGE_ACK or DATA_CHUNK message; ref is the message id
\* or the transfer id its payload carries
messageCallback(type, ref) ==
  /\ type \in {"MESSAGE_ACK", "DATA_CHUNK"}
  /\ ~processMessage(type)
  /\ ret' = [op |-> "messageCallback", type |-> type, ref |-> ref]
  /\ UNCHANGED <<relock, topoVars, nodeVars, dnmVars, now, others>>

InitReliable(threads) ==
  /\ relock \in RelockOutcomes
  /\ nodeRegistry_ = EmptyMap
  /\ adjacencyList_ = EmptyMap
  /\ topologyMutex_ = 0
  /\ peerIDs_ = <<>>
  /\ peerAddresses_ = <<>>
  /\ lastSeen_ = 0
  /\ dnmRegistry_ = EmptyMap
  /\ nodesMutex_ = 0
  /\ now = 0
  /\ pendingRegistrationsMutex_ = 0
  /\ pc = [t \in threads |-> RmIdle]
  /\ ret = [op |-> "none"]
  /\ InitExt

NextReliable(timers) ==
  \/ \E t \in Drivers, id \in MessageIds : sendReliableMessage_insert(t, RmTarget, id)
  \/ \E t \in Drivers : sendReliableMessage_send(t)
  \/ \E t \in Drivers : sendReliableMessage_markMessageFailed(t)
  \/ \E id \in MessageIds : acknowledgedMessages_ < MaxAcks /\ acknowledgeMessage(id, RmTarget)
  \/ \E t \in timers, timeout \in RetryTimeouts : retryPendingMessages_scan(t, timeout, MAX_RETRIES)
  \/ \E t \in timers : retryPendingMessages_retry(t)
  \/ \E t \in timers : retryPendingMessages_markMessageFailed(t)
  \/ cleanupAcknowledgedMessages(0)
  \/ \E id \in MessageIds : messageCallback("MESSAGE_ACK", id)
  \/ Tick

\* retryPendingMessages called from several timer threads at once
SpecReliable == InitReliable(Drivers \cup Timers) /\ [][NextReliable(Timers)]_vars

\* retryPendingMessages called from one timer thread, one call after the other
SoloTimer == {2}

SpecReliableSolo == InitReliable(Drivers \cup SoloTimer) /\ [][NextReliable(SoloTimer)]_vars

\* how often the application was told that a message was delivered / failed
Delivered(id) == Invocations(callbacks, <<"onMessageDelivered_", id, RmTarget>>)
Failed(id) == Invocations(callbacks, <<"onMessageFailed_", id, RmTarget>>)

\* the re-sends of a message handed to the transport so far
Resends(id) == {i \in 1..Len(wire) : wire[i][2] = "RELIABLE" /\ wire[i][3] = id /\ wire[i][4] > 0}

\* a sendReliableMessage call is between the insertion of the record and the
\* result of the hand-off
InWindow(id) == \E t \in Drivers : pc[t].op = "sendReliableMessage" /\ pc[t].messageID = id

(***************************************************************************)
(* C11: acknowledgeMessage is idempotent: however often a message id is    *)
(* acknowledged, the delivered callback has fired at most once for it and  *)
(* the acknowledged counter counts each message at most once.              *)
(***************************************************************************)
C11_AckIdempotent ==
  /\ \A id \in MessageIds : Delivered(id) <= 1
  /\ acknowledgedMessages_ <= Cardinality(messageIDGen)

(***************************************************************************)
(* C12: under any interleaving of retryPendingMessages calls on several    *)
(* threads with the same maxRetries, and of acknowledgeMessage, no record  *)
(* has a retryCount above maxRetries and no message is re-sent more than   *)
(* maxRetries times.                                                       *)
(***************************************************************************)
C12_RetryCap ==
  /\ \A id \in DOMAIN pendingMessages_ : pendingMessages_[id].retryCount <= MAX_RETRIES
  /\ \A id \in MessageIds : Cardinality(Resends(id)) <= MAX_RETRIES

(***************************************************************************)
(* C13: with retryPendingMessages called one call after the other, a call  *)
(* that finds an unacknowledged record due re-sends it once while its      *)
(* retryCount is below maxRetries, so the n-th re-send is made by the n-th *)
(* such call; the call that finds the count at maxRetries fails it: the    *)
(* record is dropped and the failed callback fires, once for the message;  *)
(* a message without a record is neither re-sent nor reported again.       *)
(***************************************************************************)
C13_RetryThenFail ==
  [][\A id \in MessageIds :
       LET rec == pendingMessages_[id]
           present == id \in DOMAIN pendingMessages_
       IN
       /\ \A t \in SoloTimer :
            /\ ( /\ pc[t] = RmIdle /\ pc'[t].op = "retryPendingMessages"
                 /\ present /\ rec.ackStatus = "PENDING"
                 /\ \E timeout \in RetryTimeouts :
                      /\ now - rec.lastRetry >= timeout
                      /\ pc'[t].toRetry = toRetry(pendingMessages_, timeout, MAX_RETRIES)
                      /\ pc'[t].toFail = toFail(pendingMessages_, timeout, MAX_RETRIES) )
               => IF rec.retryCount < MAX_RETRIES
                  THEN id \in Range(pc'[t].toRetry) /\ id \notin Range(pc'[t].toFail)
                  ELSE id \in Range(pc'[t].toFail) /\ id \notin Range(pc'[t].toRetry)
            /\ ( /\ pc[t].at = "retry" /\ Head(pc[t].toRetry) = id /\ pc'[t] # pc[t]
                 /\ present )
               => /\ pendingMessages_'[id].retryCount = rec.retryCount + 1
                  /\ pendingMessages_'[id].retryCount <= MAX_RETRIES
                  /\ wire' = Append(wire, <<RmTarget, "RELIABLE", id, rec.retryCount + 1>>)
                  /\ Failed(id)' = 0
            /\ ( /\ pc[t].op = "retryPendingMessages" /\ pc[t].at = "markMessageFailed"
                 /\ Head(pc[t].toFail) = id /\ pc'[t] # pc[t] /\ present )
               => /\ id \notin DOMAIN pendingMessages_'
                  /\ Failed(id)' = 1
                  /\ failedMessages_' = failedMessages_ + 1
                  /\ wire' = wire
       /\ (id \in messageIDGen /\ ~present)
            => /\ id \notin DOMAIN pendingMessages_'
               /\ Failed(id)' = Failed(id)
               /\ Resends(id)' = Resends(id)
    ]_vars

\* the message sent went through MAX_RETRIES re-sends, numbered 1..MAX_RETRIES,
\* and was then failed by retryPendingMessages while its sender had not yet returned
C13_Witness ==
  /\ InWindow(1)
  /\ 1 \notin DOMAIN pendingMessages_
  /\ Failed(1) = 1
  /\ {wire[i][4] : i \in Resends(1)} = 1..MAX_RETRIES
  /\ Cardinality(Resends(1)) = MAX_RETRIES

C15_InboundAckAcknowledges ==
  [][\A id \in MessageIds :
       ( /\ ret' # ret
         /\ ret' = [op |-> "messageCallback", type |-> "MESSAGE_ACK", ref |-> id]
         /\ id \in DOMAIN pendingMessages_
         /\ pendingMessages_[id].ackStatus = "PENDING" )
       => /\ pendingMessages_'[id].ackStatus = "ACKNOWLEDGED"
          /\ Delivered(id)' = 1
          /\ acknowledgedMessages_' = acknowledgedMessages_ + 1
    ]_vars

(***************************************************************************)
(* MessageRouter::floodMessage on the ingress threads.  isMessageSeen and  *)
(* markMessageSeen each take seenMessagesMutex_ for themselves; the        *)
(* forwarding loop takes the roster snapshot and hands the message to the  *)
(* transport once per peer other than the sender.                          *)
(***************************************************************************)
\* the timestamps inbound messages carry
MaxStamp == 1
\* forwards counted before the run is cut off
MaxForwards == 2

\* bitwise exclusive or of two naturals
RECURSIVE Xor(_, _)
Xor(a, b) ==
  IF a = 0 THEN b
  ELSE IF b = 0 THEN a
  ELSE (((a % 2) + (b % 2)) % 2) + (2 * Xor(a \div 2, b \div 2))

\* MessageRouter::generateMessageID, the fingerprint of a message
generateMessageID(message) ==
  Xor(Xor(message.senderID, message.receiverID), message.timestamp)

\* the messages peers flood to this node
FloodMessages ==
  [senderID : PeerPool, receiverID : {LocalId}, timestamp : 0..MaxStamp]

FloodIdle == [op |-> "idle", at |-> "idle", msgID |-> 0, senderID |-> 0]

isMessageSeen(seen, messageID) == messageID \in DOMAIN seen

markMessageSeen(seen, messageID) == MapPut(seen, messageID, now)

floodMessage_isMessageSeen(t, message) ==
  /\ pc[t] = FloodIdle
  /\ LET msgID == generateMessageID(message) IN
     IF isMessageSeen(seenMessages_, msgID)
     THEN /\ ret' = [op |-> "floodMessage", id |-> msgID, val |-> FALSE]
          /\ UNCHANGED pc
     ELSE /\ pc' = [pc EXCEPT ![t] = [op |-> "floodMessage", at |-> "markMessageSeen",
                                      msgID |-> msgID, senderID |-> message.senderID]]
          /\ UNCHANGED ret
  /\ UNCHANGED <<relock, topoVars, nodeVars, dnmVars, now, pendingRegistrationsMutex_, ext>>

floodMessage_markMessageSeen(t) ==
  /\ pc[t].op = "floodMessage" /\ pc[t].at = "markMessageSeen"
  /\ seenMessages_' = markMessageSeen(seenMessages_, pc[t].msgID)
  /\ pc' = [pc EXCEPT ![t].at = "forward"]
  /\ UNCHANGED <<relock, topoVars, nodeVars, dnmVars, now, pendingRegistrationsMutex_, ret,
                 activeConnections_, rmVars, forwardedMessageCount_, dxVars, callbacks, wire>>

\* the hand-offs of one forwarding loop, in roster order
RECURSIVE floodSends(_, _, _)
floodSends(peers, senderID, msgID) ==
  IF peers = <<>> THEN <<>>
  ELSE (IF Head(peers) # senderID THEN <<<<Head(peers), "FLOOD", msgID, 0>>>> ELSE <<>>)
       \o floodSends(Tail(peers), senderID, msgID)

floodMessage_forward(t) ==
  /\ pc[t].op = "floodMessage" /\ pc[t].at = "forward"
  /\ LET sends == floodSends(peerIDs_, pc[t].senderID, pc[t].msgID) IN
     /\ wire' = wire \o sends
     /\ ret' = [op |-> "floodMessage", id |-> pc[t].msgID,
                val |-> \A i \in 1..Len(sends) :
                           TRUE \in sendMessageToPeer(activeConnections_, sends[i][1])]
  /\ forwardedMessageCount_' = forwardedMessageCount_ + 1
  /\ pc' = [pc EXCEPT ![t] = FloodIdle]
  /\ UNCHANGED <<relock, topoVars, nodeVars, dnmVars, now, pendingRegistrationsMutex_,
                 activeConnections_, rmVars, seenMessages_, dxVars, callbacks>>

\* cleanupSeenMessages, one lock_guard scope
cleanupSeenMessages(timeoutSeconds) ==
  /\ seenMessages_' = [id \in {i \in DOMAIN seenMessages_ :
                                  ~(now - seenMessages_[i] > timeoutSeconds)}
                         |-> seenMessages_[id]]
  /\ ret' = [op |-> "cleanupSeenMessages"]
  /\ UNCHANGED <<relock, topoVars, nodeVars, dnmVars, now, pendingRegistrationsMutex_, pc,
                 activeConnections_, rmVars, forwardedMessageCount_, dxVars, callbacks, wire>>

InitFlood ==
  /\ relock \in RelockOutcomes
  /\ nodeRegistry_ = EmptyMap
  /\ adjacencyList_ = EmptyMap
  /\ topologyMutex_ = 0
  /\ peerIDs_ = <<>>
  /\ peerAddresses_ = <<>>
  /\ lastSeen_ = 0
  /\ dnmRegistry_ = EmptyMap
  /\ nodesMutex_ = 0
  /\ now = 0
  /\ pendingRegistrationsMutex_ = 0
  /\ pc = [t \in Threads |-> FloodIdle]
  /\ ret = [op |-> "none"]
  /\ InitExt

NextFlood ==
  \/ \E t \in Threads, message \in FloodMessages :
        forwardedMessageCount_ < MaxForwards /\ floodMessage_isMessageSeen(t, message)
  \/ \E t \in Threads : floodMessage_markMessageSeen(t)
  \/ \E t \in Threads : floodMessage_forward(t)
  \/ cleanupSeenMessages(0)
  \/ \E id \in PeerPool, a \in RaceAddresses : addPeer(id, a)
  \/ Tick

SpecFlood == InitFlood /\ [][NextFlood]_vars

(***************************************************************************)
(* C16: for any interleaving of floodMessage calls, a fingerprint is       *)
(* forwarded at most once while it stays in the seen-set: a call that goes *)
(* on to forward has marked a fingerprint that no other call had marked    *)
(* and not yet seen evicted.                                               *)
(***************************************************************************)
C16_FloodForwardsOnce ==
  [][\A t \in Threads :
       (pc[t].op = "floodMessage" /\ pc[t].at = "markMessageSeen" /\ pc'[t].at = "forward")
       => ~isMessageSeen(seenMessages_, pc[t].msgID)
    ]_vars

(***************************************************************************)
(* DataExchange.  A payload is a sequence of bytes; a chunk is a DataChunk *)
(* record; receivedChunks_ maps a transfer id to its chunks by sequence    *)
(* number.  The application has installed onDataReceived_,                 *)
(* onTransferComplete_ and onTransferProgress_.                            *)
(***************************************************************************)
MaxBytes == 3
MaxByte == 1
MaxChunkSize == 2
MaxTransfers == 1

Payloads == UNION {[1..n -> 0..MaxByte] : n \in 0..MaxBytes}
ChunkSizes == 1..MaxChunkSize
TransferIds == 1..MaxTransfers
\* the dataType callers pass to sendData
DataType == "blob"

\* splitData with the chunk count rounded down
splitDataFloor(data, transferID, chunkSize) ==
  LET totalSize == Len(data)
      chunkCount == totalSize \div chunkSize
  IN  [i \in 1..chunkCount |->
         LET offset == (i - 1) * chunkSize
             chunkDataSize == IF chunkSize < totalSize - offset THEN chunkSize
                              ELSE totalSize - offset
         IN  [chunkID |-> transferID, sequenceNumber |-> i - 1, totalChunks |-> chunkCount,
              isLastChunk |-> (i - 1 = chunkCount - 1),
              data |-> SubSeq(data, offset + 1, offset + chunkDataSize)]]

\* splitData(data, transferID) under chunkSize_ = chunkSize
splitData(data, transferID, chunkSize) ==
  LET totalSize == Len(data)
      chunkCount == (totalSize + chunkSize - 1) \div chunkSize
  IN  [i \in 1..chunkCount |->
         LET offset == (i - 1) * chunkSize
             chunkDataSize == IF chunkSize < totalSize - offset THEN chunkSize
                              ELSE totalSize - offset
         IN  [chunkID |-> transferID, sequenceNumber |-> i - 1, totalChunks |-> chunkCount,
              isLastChunk |-> (i - 1 = chunkCount - 1),
              data |-> SubSeq(data, offset + 1, offset + chunkDataSize)]]

\* the data of the chunks 0..n-1 of a chunk map, one after the other
RECURSIVE Concat(_, _)
Concat(chunks, n) ==
  IF n = 0 THEN <<>> ELSE Concat(chunks, n - 1) \o chunks[n - 1].data

\* reassembleData succeeding as soon as the chunk flagged isLastChunk is stored
reassembleDataOnLast(rc, transferID) ==
  IF transferID \notin DOMAIN rc THEN [ok |-> FALSE, data |-> <<>>]
  ELSE LET chunks == rc[transferID] IN
       IF \E i \in DOMAIN chunks : chunks[i].isLastChunk /\ (0..i) \subseteq DOMAIN chunks
       THEN [ok |-> TRUE,
             data |-> Concat(chunks, 1 + CHOOSE i \in DOMAIN chunks : chunks[i].isLastChunk)]
       ELSE IF \E i \in DOMAIN chunks : chunks[i].isLastChunk
       THEN [ok |-> TRUE, data |-> <<>>]
       ELSE [ok |-> FALSE, data |-> <<>>]

\* reassembleData: whether the transfer is complete, and the bytes put
\* together from the stored chunks
reassembleData(rc, transferID) ==
  IF transferID \notin DOMAIN rc THEN [ok |-> FALSE, data |-> <<>>]
  ELSE LET chunks == rc[transferID] IN
       IF DOMAIN chunks = {} THEN [ok |-> FALSE, data |-> <<>>]
       ELSE LET expectedChunks == chunks[Min(DOMAIN chunks)].totalChunks IN
            IF Cardinality(DOMAIN chunks) < expectedChunks THEN [ok |-> FALSE, data |-> <<>>]
            ELSE IF \E i \in 0..(expectedChunks - 1) : i \notin DOMAIN chunks
            THEN [ok |-> FALSE, data |-> <<>>]
            ELSE [ok |-> TRUE, data |-> Concat(chunks, expectedChunks)]

\* markTransferComplete on one of the two transfer tables
markTransferCompleteIn(transfers, transferID, success) ==
  IF transferID \notin DOMAIN transfers THEN transfers
  ELSE [transfers EXCEPT ![transferID].status = IF success THEN "COMPLETED" ELSE "FAILED",
                         ![transferID].lastUpdate = now]

\* getReceivedData
getReceivedData(transferID) ==
  IF transferID \in DOMAIN completedData_ THEN completedData_[transferID] ELSE <<>>

\* isTransferComplete
isTransferComplete(transferID) ==
  transferID \in DOMAIN incomingTransfers_ /\ incomingTransfers_[transferID].status = "COMPLETED"

\* the peer whose DataExchange sends to this node, and what it has in flight
PeerIdle == [op |-> "idle", payload |-> <<>>, transferID |-> 0, chunkSize |-> 0,
             chunks |-> <<>>, inFlight |-> {}]

\* the peer's sendData: the payload is split under the peer's chunk size and
\* every chunk is on its way to this node
peer_sendData(p, data, transferID, chunkSize) ==
  /\ pc[p].inFlight = {}
  /\ transferID \notin transferIDGen
  /\ transferIDGen' = transferIDGen \cup {transferID}
  /\ LET chunks == splitData(data, transferID, chunkSize) IN
     pc' = [pc EXCEPT ![p] = [op |-> "sendData", payload |-> data, transferID |-> transferID,
                              chunkSize |-> chunkSize, chunks |-> chunks,
                              inFlight |-> 1..Len(chunks)]]
  /\ UNCHANGED <<relock, topoVars, nodeVars, dnmVars, now, pendingRegistrationsMutex_, ret,
                 activeConnections_, rmVars, routerVars, chunkSize_, outgoingTransfers_,
                 incomingTransfers_, receivedChunks_, completedData_, callbacks, wire>>

\* handleDataChunk(chunk, sourceID), called one call at a time
handleDataChunkOn(chunk, sourceID) ==
  LET transferID == chunk.chunkID
      stored == IF transferID \in DOMAIN receivedChunks_ THEN receivedChunks_[transferID]
                ELSE EmptyMap
      rc == MapPut(receivedChunks_, transferID, MapPut(stored, chunk.sequenceNumber, chunk))
      created == IF transferID \in DOMAIN incomingTransfers_ THEN incomingTransfers_
                 ELSE MapPut(incomingTransfers_, transferID,
                        [transferID |-> transferID, sourceID |-> sourceID,
                         destinationID |-> LocalId, dataType |-> "", totalSize |-> 0,
                         transferredSize |-> 0, status |-> "IN_PROGRESS",
                         startTime |-> now, lastUpdate |-> 0])
      transferred == created[transferID].transferredSize + Len(chunk.data)
      updated == [created EXCEPT ![transferID].transferredSize = transferred,
                                 ![transferID].lastUpdate = now,
                                 ![transferID].totalSize =
                                    IF chunk.isLastChunk THEN transferred ELSE @]
      r == reassembleData(rc, transferID)
      cb1 == IF r.ok /\ updated[transferID].sourceID # 0
             THEN Invoke(callbacks, <<"onDataReceived_", updated[transferID].sourceID, transferID, 0>>)
             ELSE callbacks
      cb2 == IF r.ok /\ transferID \in DOMAIN outgoingTransfers_
             THEN Invoke(cb1, <<"onTransferComplete_", transferID, 1, 0>>)
             ELSE cb1
      incoming == IF r.ok THEN markTransferCompleteIn(updated, transferID, TRUE) ELSE updated
  IN
  /\ receivedChunks_' = rc
  /\ completedData_' = IF r.ok THEN MapPut(completedData_, transferID, r.data) ELSE completedData_
  /\ outgoingTransfers_' = IF r.ok THEN markTransferCompleteIn(outgoingTransfers_, transferID, TRUE)
                           ELSE outgoingTransfers_
  /\ incomingTransfers_' = incoming
  /\ callbacks' = Invoke(cb2, <<"onTransferProgress_", transferID,
                                incoming[transferID].transferredSize,
                                incoming[transferID].totalSize>>)
  /\ ret' = [op |-> "handleDataChunk", id |-> transferID, seq |-> chunk.sequenceNumber]

\* one chunk in flight arrives and is handed to handleDataChunk
handleDataChunk(p, i) ==
  /\ i \in pc[p].inFlight
  /\ handleDataChunkOn(pc[p].chunks[i], p)
  /\ pc' = [pc EXCEPT ![p].inFlight = @ \ {i}]
  /\ UNCHANGED <<relock, topoVars, nodeVars, dnmVars, now, pendingRegistrationsMutex_,
                 activeConnections_, rmVars, routerVars, chunkSize_, transferIDGen, wire>>

InitReceive ==
  /\ relock \in RelockOutcomes
  /\ nodeRegistry_ = EmptyMap
  /\ adjacencyList_ = EmptyMap
  /\ topologyMutex_ = 0
  /\ peerIDs_ = <<>>
  /\ peerAddresses_ = <<>>
  /\ lastSeen_ = 0
  /\ dnmRegistry_ = EmptyMap
  /\ nodesMutex_ = 0
  /\ now = 0
  /\ pendingRegistrationsMutex_ = 0
  /\ pc = [p \in {RmTarget} |-> PeerIdle]
  /\ ret = [op |-> "none"]
  /\ InitExt

NextReceive ==
  \/ \E data \in Payloads, id \in TransferIds, cs \in ChunkSizes :
        peer_sendData(RmTarget, data, id, cs)
  \/ \E i \in 1..MaxBytes : handleDataChunk(RmTarget, i)
  \/ \E id \in TransferIds :
        /\ \E i \in pc[RmTarget].inFlight : pc[RmTarget].chunks[i].chunkID = id
        /\ messageCallback("DATA_CHUNK", id)

SpecReceive == InitReceive /\ [][NextReceive]_vars

C18_AnyOrderCompletesAtLastChunk ==
  [][\A i \in 1..MaxBytes :
       (i \in pc[RmTarget].inFlight /\ i \notin pc'[RmTarget].inFlight)
       => LET id == pc[RmTarget].transferID IN
          /\ id \in DOMAIN incomingTransfers_'
          /\ IF pc'[RmTarget].inFlight = {}
             THEN /\ incomingTransfers_'[id].status = "COMPLETED"
                  /\ id \in DOMAIN completedData_'
                  /\ completedData_'[id] = pc[RmTarget].payload
             ELSE /\ incomingTransfers_'[id].status = "IN_PROGRESS"
                  /\ id \notin DOMAIN completedData_'
    ]_vars

\* three chunks arrived with chunk 0 last and the chunk flagged isLastChunk
\* not last; the transfer is complete with the payload in the right order
C18_Witness ==
  LET f == pc[RmTarget] IN
  /\ f.op = "sendData" /\ f.inFlight = {} /\ Len(f.chunks) = 3
  /\ ret = [op |-> "handleDataChunk", id |-> f.transferID, seq |-> 0]
  /\ f.payload[1] # f.payload[3]
  /\ isTransferComplete(f.transferID)
  /\ getReceivedData(f.transferID) = f.payload

(***************************************************************************)
(* C19: a DATA_CHUNK message delivered to the receiver's inbound message   *)
(* callback is stored by DataExchange: receivedChunks_ gains the chunk.    *)
(***************************************************************************)
C19_InboundChunkStored ==
  [][\A id \in TransferIds :
       ( /\ ret' # ret
         /\ ret' = [op |-> "messageCallback", type |-> "DATA_CHUNK", ref |-> id] )
       => /\ id \in DOMAIN receivedChunks_'
          /\ receivedChunks_' # receivedChunks_
    ]_vars

(***************************************************************************)
(* The sending side of DataExchange: sendData splits the payload and hands *)
(* every chunk to MessageRouter::routeMessage with SHORTEST_PATH.          *)
(***************************************************************************)
\* findRoute without the look at the roster
findRouteNoRoster(targetID) ==
  findPath(adjacencyList_, LocalId, targetID)

\* MessageRouter::findRoute
findRoute(targetID) ==
  IF hasPeer(peerIDs_, targetID) THEN <<LocalId, targetID>>
  ELSE findPath(adjacencyList_, LocalId, targetID)

\* the node routeMessageMultiHop hands the message to; 0 when there is no route
nextHop(targetID) ==
  LET route == findRoute(targetID) IN
  IF route = <<>> THEN 0 ELSE IF Len(route) = 1 THEN targetID ELSE route[2]

\* the results sendDataChunk can have for the chunks of one transfer
ChunkOutcomes(targetID, n) ==
  IF nextHop(targetID) = 0 THEN [1..n -> {FALSE}]
  ELSE [1..n -> sendMessageToPeer(activeConnections_, nextHop(targetID))]

\* the loop of sendData going on after a chunk whose send failed
sendChunksAll(chunks, hop, oks) ==
  LET n == Len(chunks)
      failing == {i \in 1..n : ~oks[i]}
      stop == IF failing = {} THEN n + 1 ELSE Min(failing)
  IN  [success |-> failing = {},
       sent |-> stop - 1,
       emitted |-> IF hop = 0 THEN <<>>
                   ELSE [i \in 1..n |-> <<hop, "DATA_CHUNK", chunks[i].chunkID,
                                           chunks[i].sequenceNumber>>]]

\* the loop of sendData: the chunks handed on, in order, up to and including
\* the first one whose send fails, and how many were sent
sendChunks(chunks, hop, oks) ==
  LET n == Len(chunks)
      failing == {i \in 1..n : ~oks[i]}
      stop == IF failing = {} THEN n + 1 ELSE Min(failing)
      last == IF stop > n THEN n ELSE stop
  IN  [success |-> failing = {},
       sent |-> stop - 1,
       emitted |-> IF hop = 0 THEN <<>>
                   ELSE [i \in 1..last |-> <<hop, "DATA_CHUNK", chunks[i].chunkID,
                                              chunks[i].sequenceNumber>>]]

\* the bytes of the first k chunks
RECURSIVE SizeOf(_, _)
SizeOf(chunks, k) == IF k = 0 THEN 0 ELSE SizeOf(chunks, k - 1) + Len(chunks[k].data)

\* onTransferProgress_ after each of the first k chunks
RECURSIVE ProgressCalls(_, _, _, _, _)
ProgressCalls(cb, chunks, k, transferID, totalSize) ==
  IF k = 0 THEN cb
  ELSE Invoke(ProgressCalls(cb, chunks, k - 1, transferID, totalSize),
              <<"onTransferProgress_", transferID, SizeOf(chunks, k), totalSize>>)

sendData(targetID, data, transferID) ==
  /\ transferID \notin transferIDGen
  /\ transferIDGen' = transferIDGen \cup {transferID}
  /\ LET chunks == splitData(data, transferID, chunkSize_) IN
     \E oks \in ChunkOutcomes(targetID, Len(chunks)) :
       LET r == sendChunks(chunks, nextHop(targetID), oks)
           transfer == [transferID |-> transferID, sourceID |-> LocalId,
                        destinationID |-> targetID, dataType |-> DataType,
                        totalSize |-> Len(data), transferredSize |-> SizeOf(chunks, r.sent),
                        status |-> IF r.success THEN "COMPLETED" ELSE "FAILED",
                        startTime |-> now, lastUpdate |-> now]
       IN
       /\ outgoingTransfers_' = MapPut(outgoingTransfers_, transferID, transfer)
       /\ incomingTransfers_' = markTransferCompleteIn(incomingTransfers_, transferID, r.success)
       /\ wire' = wire \o r.emitted
       /\ callbacks' = Invoke(ProgressCalls(callbacks, chunks, r.sent, transferID, Len(data)),
                              <<"onTransferComplete_", transferID,
                                IF r.success THEN 1 ELSE 0, 0>>)
       /\ ret' = [op |-> "sendData", id |-> transferID,
                  val |-> IF r.success THEN transferID ELSE 0]
  /\ UNCHANGED <<relock, topoVars, nodeVars, dnmVars, now, pendingRegistrationsMutex_, pc,
                 activeConnections_, rmVars, routerVars, chunkSize_, receivedChunks_,
                 completedData_>>

setChunkSize(chunkSize) ==
  /\ chunkSize_' = chunkSize
  /\ ret' = [op |-> "setChunkSize", id |-> chunkSize, val |-> 0]
  /\ UNCHANGED <<relock, topoVars, nodeVars, dnmVars, now, pendingRegistrationsMutex_, pc,
                 activeConnections_, rmVars, routerVars, outgoingTransfers_, incomingTransfers_,
                 receivedChunks_, completedData_, transferIDGen, callbacks, wire>>

InitSend ==
  /\ relock \in RelockOutcomes
  /\ nodeRegistry_ = EmptyMap
  /\ adjacencyList_ = EmptyMap
  /\ topologyMutex_ = 0
  /\ peerIDs_ = <<>>
  /\ peerAddresses_ = <<>>
  /\ lastSeen_ = 0
  /\ dnmRegistry_ = EmptyMap
  /\ nodesMutex_ = 0
  /\ now = 0
  /\ pendingRegistrationsMutex_ = 0
  /\ pc = EmptyMap
  /\ ret = [op |-> "none"]
  /\ InitExt

NextSend ==
  \/ \E cs \in ChunkSizes : setChunkSize(cs)
  \/ \E id \in PeerPool, a \in RaceAddresses : addPeer(id, a)
  \/ \E target \in PeerPool, data \in Payloads, id \in TransferIds : sendData(target, data, id)

SpecSend == InitSend /\ [][NextSend]_vars

Senders == {1}

SendIdle == [op |-> "idle", at |-> "idle", targetID |-> 0, transferID |-> 0,
             chunks |-> <<>>, k |-> 0]

\* sendData up to the split: the record is inserted IN_PROGRESS
sendData_insert(t, targetID, data, transferID) ==
  /\ pc[t].op = "idle"
  /\ transferID \notin transferIDGen
  /\ transferIDGen' = transferIDGen \cup {transferID}
  /\ outgoingTransfers_' = MapPut(outgoingTransfers_, transferID,
        [transferID |-> transferID, sourceID |-> LocalId, destinationID |-> targetID,
         dataType |-> DataType, totalSize |-> Len(data), transferredSize |-> 0,
         status |-> "IN_PROGRESS", startTime |-> now, lastUpdate |-> now])
  /\ pc' = [pc EXCEPT ![t] = [op |-> "sendData", at |-> "loop", targetID |-> targetID,
                              transferID |-> transferID,
                              chunks |-> splitData(data, transferID, chunkSize_), k |-> 1]]
  /\ UNCHANGED <<relock, topoVars, nodeVars, dnmVars, now, pendingRegistrationsMutex_, ret,
                 activeConnections_, rmVars, routerVars, chunkSize_, incomingTransfers_,
                 receivedChunks_, completedData_, callbacks, wire>>

\* updateTransferProgress
updateTransferProgress(transfers, transferID, bytesTransferred) ==
  IF transferID \notin DOMAIN transfers THEN transfers
  ELSE [transfers EXCEPT ![transferID].transferredSize = @ + bytesTransferred,
                         ![transferID].lastUpdate = now]

\* one turn of the loop of sendData: sendDataChunk on the next chunk, then
\* updateTransferProgress when it was handed on
sendData_sendDataChunk(t) ==
  /\ pc[t].op = "sendData" /\ pc[t].at = "loop" /\ pc[t].k <= Len(pc[t].chunks)
  /\ LET chunk == pc[t].chunks[pc[t].k]
         id == pc[t].transferID
         hop == nextHop(pc[t].targetID)
         progressed == updateTransferProgress(outgoingTransfers_, id, Len(chunk.data))
     IN
     \E ok \in IF hop = 0 THEN {FALSE} ELSE sendMessageToPeer(activeConnections_, hop) :
       /\ wire' = IF hop = 0 THEN wire
                  ELSE Append(wire, <<hop, "DATA_CHUNK", id, chunk.sequenceNumber>>)
       /\ outgoingTransfers_' = IF ok THEN progressed ELSE outgoingTransfers_
       /\ callbacks' = IF ok /\ id \in DOMAIN outgoingTransfers_
                       THEN Invoke(callbacks, <<"onTransferProgress_", id,
                                                progressed[id].transferredSize,
                                                progressed[id].totalSize>>)
                       ELSE callbacks
       /\ pc' = IF ok THEN [pc EXCEPT ![t].k = @ + 1] ELSE [pc EXCEPT ![t].at = "failed"]
  /\ UNCHANGED <<relock, topoVars, nodeVars, dnmVars, now, pendingRegistrationsMutex_, ret,
                 activeConnections_, rmVars, routerVars, chunkSize_, incomingTransfers_,
                 receivedChunks_, completedData_, transferIDGen>>

\* the end of sendData: markTransferComplete(transferID, false) after a chunk
\* that was not handed on, markTransferComplete(transferID, true) after the loop
sendData_markTransferComplete(t) ==
  /\ pc[t].op = "sendData"
  /\ pc[t].at = "failed" \/ (pc[t].at = "loop" /\ pc[t].k > Len(pc[t].chunks))
  /\ LET id == pc[t].transferID
         success == pc[t].at = "loop"
     IN
     /\ outgoingTransfers_' = markTransferCompleteIn(outgoingTransfers_, id, success)
     /\ incomingTransfers_' = markTransferCompleteIn(incomingTransfers_, id, success)
     /\ callbacks' = IF id \in DOMAIN outgoingTransfers_
                     THEN Invoke(callbacks, <<"onTransferComplete_", id,
                                              IF success THEN 1 ELSE 0, 0>>)
                     ELSE callbacks
     /\ ret' = [op |-> "sendData", id |-> id, val |-> IF success THEN id ELSE 0]
  /\ pc' = [pc EXCEPT ![t] = SendIdle]
  /\ UNCHANGED <<relock, topoVars, nodeVars, dnmVars, now, pendingRegistrationsMutex_,
                 activeConnections_, rmVars, routerVars, chunkSize_, receivedChunks_,
                 completedData_, transferIDGen, wire>>

cancelTransfer(transferID) ==
  /\ outgoingTransfers_' =
       IF transferID \in DOMAIN outgoingTransfers_
       THEN [outgoingTransfers_ EXCEPT ![transferID].status = "CANCELLED"]
       ELSE outgoingTransfers_
  /\ ret' = [op |-> "cancelTransfer", id |-> transferID,
             val |-> IF transferID \in DOMAIN outgoingTransfers_ THEN 1 ELSE 0]
  /\ UNCHANGED <<relock, topoVars, nodeVars, dnmVars, now, pendingRegistrationsMutex_, pc,
                 activeConnections_, rmVars, routerVars, chunkSize_, incomingTransfers_,
                 receivedChunks_, completedData_, transferIDGen, callbacks, wire>>

InitCancel ==
  /\ relock \in RelockOutcomes
  /\ nodeRegistry_ = EmptyMap
  /\ adjacencyList_ = EmptyMap
  /\ topologyMutex_ = 0
  /\ peerIDs_ = <<>>
  /\ peerAddresses_ = <<>>
  /\ lastSeen_ = 0
  /\ dnmRegistry_ = EmptyMap
  /\ nodesMutex_ = 0
  /\ now = 0
  /\ pendingRegistrationsMutex_ = 0
  /\ pc = [t \in Senders |-> SendIdle]
  /\ ret = [op |-> "none"]
  /\ InitExt

NextCancel ==
  \/ \E cs \in ChunkSizes : pc[1].op = "idle" /\ setChunkSize(cs)
  \/ \E id \in PeerPool, a \in RaceAddresses : addPeer(id, a)
  \/ \E t \in Senders, target \in PeerPool, data \in Payloads, id \in TransferIds :
        sendData_insert(t, target, data, id)
  \/ \E t \in Senders : sendData_sendDataChunk(t)
  \/ \E t \in Senders : sendData_markTransferComplete(t)
  \/ \E id \in TransferIds : cancelTransfer(id)

SpecCancel == InitCancel /\ [][NextCancel]_vars

(***************************************************************************)
(* C21: once cancelTransfer(id) has succeeded while sendData for that      *)
(* transfer is still running, sendData hands no further chunk on and the   *)
(* outgoing record stays Cancelled; it never becomes Completed.            *)
(***************************************************************************)
C21_CancelStopsSendData ==
  [][\A t \in Senders :
       LET id == pc[t].transferID IN
       ( /\ pc[t].op = "sendData"
         /\ id \in DOMAIN outgoingTransfers_
         /\ outgoingTransfers_[id].status = "CANCELLED" )
       => /\ wire' = wire
          /\ outgoingTransfers_'[id].status = "CANCELLED"
    ]_vars

(***************************************************************************)
(* C22: cancelTransfer(id) changes a record only when it is an outgoing    *)
(* transfer in status InProgress; a transfer already Completed or Failed   *)
(* keeps its status and an unknown id returns false with every transfer    *)
(* table unchanged.                                                        *)
(***************************************************************************)
C22_CancelOnlyInProgress ==
  [][\A id \in TransferIds :
       (ret' # ret /\ ret'.op = "cancelTransfer" /\ ret'.id = id)
       => IF id \in DOMAIN outgoingTransfers_
             /\ outgoingTransfers_[id].status = "IN_PROGRESS"
          THEN /\ ret'.val = 1
               /\ outgoingTransfers_'[id].status = "CANCELLED"
          ELSE /\ outgoingTransfers_' = outgoingTransfers_
               /\ incomingTransfers_' = incomingTransfers_
               /\ id \notin DOMAIN outgoingTransfers_ => ret'.val = 0
    ]_vars

(***************************************************************************)
(* MessageHandler: the JOIN_REQUEST and JOIN_RESPONSE handlers and the     *)
(* node-list encoding of their payloads.  Bytes are 0..255; the build is   *)
(* little-endian, uint32_t is 4 bytes and NodeID 8.                        *)
(***************************************************************************)
\* the longest suggestion list a peer puts in a response
MaxSuggested == 2

\* memcpy of the w-byte unsigned integer n
RECURSIVE LE(_, _)
LE(n, w) == IF w = 0 THEN <<>> ELSE <<n % 256>> \o LE(n \div 256, w - 1)

\* the unsigned integer memcpy reads from these bytes
RECURSIVE FromLE(_)
FromLE(bytes) ==
  IF bytes = <<>> THEN 0 ELSE Head(bytes) + 256 * FromLE(Tail(bytes))

RECURSIVE Bytes8(_)
Bytes8(nodes) == IF nodes = <<>> THEN <<>> ELSE LE(Head(nodes), 8) \o Bytes8(Tail(nodes))

\* the count is nodes.size() cast to uint32_t, the same number below 2^32
serializeNodeList(nodes) == LE(Len(nodes), 4) \o Bytes8(nodes)

deserializeNodeList(data) ==
  IF Len(data) < 4 THEN <<>>
  ELSE LET count == FromLE(SubSeq(data, 1, 4))
           expectedSize == 4 + count * 8
       IN  IF Len(data) < expectedSize THEN <<>>
           ELSE [i \in 1..count |-> FromLE(SubSeq(data, 4 + 8 * (i - 1) + 1, 4 + 8 * i))]

\* createJoinResponse on the node whose id is self
createJoinResponse(self, targetNodeID, accepted, peerList) ==
  [type |-> "JOIN_RESPONSE", senderID |-> self, receiverID |-> targetNodeID,
   payload |-> <<IF accepted THEN 1 ELSE 0>> \o serializeNodeList(peerList)]

\* TopologyManager::discoverPeers
discoverPeers(reg, requestingNodeID, maxPeers) ==
  LET availablePeers == SortedSeq({n \in DOMAIN reg : n # requestingNodeID /\ n # LocalId})
  IN  IF Len(availablePeers) > maxPeers THEN SubSeq(availablePeers, 1, maxPeers)
      ELSE availablePeers

\* handleJoinRequest on a JOIN_REQUEST whose senderID is given; ret keeps the
\* response handed to sendMessageToPeer
handleJoinRequest(senderID) ==
  /\ topologyMutex_ = 0
  /\ LET accepted == Len(peerIDs_) < MAX_PEERS
         peerList == IF accepted THEN discoverPeers(nodeRegistry_, senderID, MAX_PEERS)
                     ELSE <<>>
         response == createJoinResponse(LocalId, senderID, accepted, peerList)
     IN  ret' = [op |-> "handleJoinRequest", id |-> senderID, response |-> response]
  /\ UNCHANGED <<relock, topoVars, nodeVars, dnmVars, now, others>>

\* the suggested ids handleJoinResponse asks connectToPeer for
toConnect(peerList) ==
  LET Wanted(peerID) == /\ peerID # LocalId
                        /\ ~hasPeer(peerIDs_, peerID)
                        /\ getNodeAddress(nodeRegistry_, peerID).port # 0
  IN  SelectSeq(peerList, Wanted)

\* handleJoinResponse on the response a peer built with
\* createJoinResponse(this node, accepted, suggested)
handleJoinResponse(senderID, accepted, suggested) ==
  /\ topologyMutex_ = 0
  /\ LET message == createJoinResponse(senderID, LocalId, accepted, suggested)
         peerList == deserializeNodeList(message.payload)
     IN  ret' = [op |-> "handleJoinResponse", id |-> senderID, suggested |-> suggested,
                 accepted |-> accepted, peerList |-> peerList,
                 connects |-> toConnect(peerList)]
  /\ UNCHANGED <<relock, topoVars, nodeVars, dnmVars, now, others>>

SuggestionLists == UNION {[1..n -> NodeIds] : n \in 0..MaxSuggested}
JoinSenders == PeerPool \cup {0, LocalId}

NextJoin ==
  \/ \E id \in NodeIds, a \in RaceAddresses : addNode(id, a)
  \/ \E id \in PeerPool, a \in RaceAddresses : addPeer(id, a)
  \/ \E s \in JoinSenders : handleJoinRequest(s)
  \/ \E accepted \in BOOLEAN, L \in SuggestionLists :
        handleJoinResponse(RmTarget, accepted, L)

SpecJoin == InitRoster /\ [][NextJoin]_vars

(***************************************************************************)
(* C23: when a node whose roster has room handles a JOIN_REQUEST from a    *)
(* valid sender S (non-zero, not the node itself, not yet known), S is     *)
(* registered in the topology and present in the roster afterwards and the *)
(* response carries accepted = 1; when the roster is full S is added to    *)
(* neither and the response carries accepted = 0.                          *)
(***************************************************************************)
C23_JoinRequestAdmits ==
  [][\A S \in JoinSenders :
       ( /\ ret' # ret
         /\ ret'.op = "handleJoinRequest" /\ ret'.id = S
         /\ S # 0 /\ S # LocalId
         /\ S \notin DOMAIN nodeRegistry_ /\ ~hasPeer(peerIDs_, S) )
       => IF Len(peerIDs_) < MAX_PEERS
          THEN /\ S \in DOMAIN nodeRegistry_'
               /\ hasPeer(peerIDs_', S)
               /\ ret'.response.payload[1] = 1
          ELSE /\ S \notin DOMAIN nodeRegistry_'
               /\ ~hasPeer(peerIDs_', S)
               /\ ret'.response.payload[1] = 0
    ]_vars

(***************************************************************************)
(* C24: for every suggestion list L and acceptance flag, the id list       *)
(* handleJoinResponse extracts from the payload of                         *)
(* createJoinResponse(target, accepted, L) is L, so connectToPeer is asked *)
(* for exactly the ids of L that are not the node itself, not already      *)
(* peers and have a known address.                                         *)
(***************************************************************************)
C24_JoinResponseRoundTrip ==
  [][\A L \in SuggestionLists :
       ( /\ ret' # ret
         /\ ret'.op = "handleJoinResponse" /\ ret'.suggested = L )
       => /\ ret'.peerList = L
          /\ ret'.connects = toConnect(L)
    ]_vars

(***************************************************************************)
(* MessageRouter::isReachable and getHopCount, asked while the topology    *)
(* and the roster change.                                                  *)
(***************************************************************************)
isReachable(targetID) == findRoute(targetID) # <<>>

getHopCount(targetID) ==
  LET route == findRoute(targetID) IN
  IF route = <<>> THEN -1 ELSE Len(route) - 1

isReachableCall(targetID) ==
  /\ topologyMutex_ = 0
  /\ ret' = [op |-> "isReachable", id |-> targetID, val |-> isReachable(targetID)]
  /\ UNCHANGED <<relock, topoVars, nodeVars, dnmVars, now, others>>

getHopCountCall(targetID) ==
  /\ topologyMutex_ = 0
  /\ ret' = [op |-> "getHopCount", id |-> targetID, val |-> getHopCount(targetID)]
  /\ UNCHANGED <<relock, topoVars, nodeVars, dnmVars, now, others>>

NextRoute ==
  \/ \E id \in NodeIds, a \in RaceAddresses : addNode(id, a)
  \/ \E id \in NodeIds : removeNode(id)
  \/ repairTopology
  \/ \E id \in PeerPool, a \in RaceAddresses : addPeer(id, a)
  \/ \E id \in PeerPool : removePeer(id)
  \/ \E target \in NodeIds : isReachableCall(target)
  \/ \E target \in NodeIds : getHopCountCall(target)

SpecRoute == InitTopology /\ [][NextRoute]_vars

(***************************************************************************)
(* C25 as stated: for every target, isReachable(target) is true iff        *)
(* findPath(self, target) is non-empty and getHopCount(target) is that     *)
(* path's length minus 1, or -1 when the path is empty; the roster does    *)
(* not influence either result.                                            *)
(***************************************************************************)
C25_ReachableIffPath ==
  [][\A target \in NodeIds :
       LET path == findPath(adjacencyList_, LocalId, target) IN
       /\ (ret' # ret /\ ret'.op = "isReachable" /\ ret'.id = target)
          => ret'.val = (path # <<>>)
       /\ (ret' # ret /\ ret'.op = "getHopCount" /\ ret'.id = target)
          => ret'.val = IF path = <<>> THEN -1 ELSE Len(path) - 1
    ]_vars

(***************************************************************************)
(* C25 amended: a target of the roster is reachable at hop count 1         *)
(* whatever the topology holds; for any other target isReachable is true   *)
(* iff findPath(self, target) is non-empty and getHopCount is that path's  *)
(* length minus 1, or -1 when the path is empty.                           *)
(***************************************************************************)
C25_ReachableIffPeerOrPath ==
  [][\A target \in NodeIds :
       LET path == findPath(adjacencyList_, LocalId, target)
           peer == hasPeer(peerIDs_, target)
       IN
       /\ (ret' # ret /\ ret'.op = "isReachable" /\ ret'.id = target)
          => ret'.val = (peer \/ path # <<>>)
       /\ (ret' # ret /\ ret'.op = "getHopCount" /\ ret'.id = target)
          => ret'.val = IF peer THEN 1
                        ELSE IF path = <<>> THEN -1 ELSE Len(path) - 1
    ]_vars

\* getHopCount answered 1 for a peer that the topology puts two hops away
C25_Witness ==
  /\ ret = [op |-> "getHopCount", id |-> 3, val |-> 1]
  /\ hasPeer(peerIDs_, 3)
  /\ Len(findPath(adjacencyList_, LocalId, 3)) = 3

(***************************************************************************)
(* C26: every call of repairTopology returns; it never blocks acquiring    *)
(* topologyMutex_.  A call that has not returned holds the mutex for good, *)
(* so the claim is that no state shows such a call.                        *)
(***************************************************************************)
C26_RepairTopologyReturns ==
  ret.op = "repairTopology" => (ret.returned /\ topologyMutex_ = 0)

(***************************************************************************)
(* C27: every call of detectFailedNodes returns, also when the membership  *)
(* table holds ACTIVE records: nodesMutex_ is held only while the records  *)
(* are inspected and is not acquired again by the thread that holds it.    *)
(***************************************************************************)
C27_DetectFailedNodesReturns ==
  ret.op = "detectFailedNodes" => (ret.returned /\ nodesMutex_ = 0)

(***************************************************************************)
(* DynamicNodeManager::removeNodeGracefully lock by lock.  A thread's      *)
(* frame lists the mutexes it holds in the order it acquired them; a step  *)
(* is one acquisition, one callback or the code between two of them.       *)
(***************************************************************************)
\* the removals of one id the threads go through
MaxRemovals == 1

LockIdle == [op |-> "idle", at |-> "idle", nodeID |-> 0, holds |-> <<>>]

\* lock_guard(nodesMutex_) at the head of removeNodeGracefully
removeNodeGracefully_lock(t, nodeID) ==
  /\ pc[t] = LockIdle
  /\ Invocations(callbacks, <<"onNodeRemoved_", nodeID>>) < MaxRemovals
  /\ nodesMutex_ = 0
  /\ nodesMutex_' = t
  /\ pc' = [pc EXCEPT ![t] = [op |-> "removeNodeGracefully", at |-> "find",
                              nodeID |-> nodeID, holds |-> <<"nodesMutex_">>]]
  /\ UNCHANGED <<relock, topoVars, nodeVars, dnmRegistry_, now, pendingRegistrationsMutex_,
                 ret, ext>>

\* the lookup; for a known id the record becomes LEAVING and the peer is
\* taken off the roster
removeNodeGracefully_find(t) ==
  /\ pc[t].op = "removeNodeGracefully" /\ pc[t].at = "find"
  /\ LET nodeID == pc[t].nodeID IN
     IF nodeID \notin DOMAIN dnmRegistry_
     THEN /\ nodesMutex_' = 0
          /\ pc' = [pc EXCEPT ![t] = LockIdle]
          /\ ret' = [op |-> "removeNodeGracefully", id |-> nodeID, val |-> FALSE]
          /\ UNCHANGED <<dnmRegistry_, nodeVars>>
     ELSE LET p == removePeerOn(peerIDs_, peerAddresses_, nodeID) IN
          /\ dnmRegistry_' = [dnmRegistry_ EXCEPT ![nodeID].state = "LEAVING"]
          /\ peerIDs_' = p.ids
          /\ peerAddresses_' = p.addrs
          /\ pc' = [pc EXCEPT ![t].at = "removeNode"]
          /\ UNCHANGED <<nodesMutex_, lastSeen_, ret>>
  /\ UNCHANGED <<relock, topoVars, now, pendingRegistrationsMutex_, ext>>

\* lock_guard(topologyMutex_) at the head of TopologyManager::removeNode
removeNodeGracefully_removeNode_lock(t) ==
  /\ pc[t].op = "removeNodeGracefully" /\ pc[t].at = "removeNode"
  /\ topologyMutex_ = 0
  /\ topologyMutex_' = t
  /\ pc' = [pc EXCEPT ![t].at = "removeNodeFromGraph",
                      ![t].holds = Append(@, "topologyMutex_")]
  /\ UNCHANGED <<relock, nodeRegistry_, adjacencyList_, nodeVars, dnmVars, now,
                 pendingRegistrationsMutex_, ret, ext>>

\* the body of TopologyManager::removeNode, its return, and the erase of the
\* membership record
removeNodeGracefully_removeNode(t) ==
  /\ pc[t].op = "removeNodeGracefully" /\ pc[t].at = "removeNodeFromGraph"
  /\ LET nodeID == pc[t].nodeID
         g == IF nodeID \in DOMAIN nodeRegistry_
              THEN removeNodeFromGraph(nodeRegistry_, adjacencyList_, nodeID)
              ELSE [reg |-> nodeRegistry_, adj |-> adjacencyList_]
     IN  /\ nodeRegistry_' = g.reg
         /\ adjacencyList_' = g.adj
         /\ dnmRegistry_' = MapErase(dnmRegistry_, nodeID)
  /\ topologyMutex_' = 0
  /\ pc' = [pc EXCEPT ![t].at = "onNodeRemoved_", ![t].holds = <<"nodesMutex_">>]
  /\ UNCHANGED <<relock, nodeVars, nodesMutex_, now, pendingRegistrationsMutex_, ret, ext>>

\* if (onNodeRemoved_) onNodeRemoved_(nodeID)
removeNodeGracefully_onNodeRemoved(t) ==
  /\ pc[t].op = "removeNodeGracefully" /\ pc[t].at = "onNodeRemoved_"
  /\ callbacks' = Invoke(callbacks, <<"onNodeRemoved_", pc[t].nodeID>>)
  /\ pc' = [pc EXCEPT ![t].at = "repairNetworkAfterNodeRemoval"]
  /\ UNCHANGED <<relock, topoVars, nodeVars, dnmVars, now, pendingRegistrationsMutex_, ret,
                 activeConnections_, rmVars, routerVars, dxVars, wire>>

\* repairNetworkAfterNodeRemoval and the return of removeNodeGracefully; a
\* thread that blocks in repairTopology keeps both mutexes
removeNodeGracefully_repair(t) ==
  /\ pc[t].op = "removeNodeGracefully" /\ pc[t].at = "repairNetworkAfterNodeRemoval"
  /\ topologyMutex_ = 0
  /\ LET nodeID == pc[t].nodeID
         w == repairNetworkAfterNodeRemoval(World, nodeID)
         integrityOK == isTopologyConnected(w.reg, w.adj)
     IN  IF w.stuck # {}
         THEN /\ topologyMutex_' = t
              /\ pc' = [pc EXCEPT ![t].at = "blocked",
                                  ![t].holds = Append(@, "topologyMutex_")]
              /\ UNCHANGED <<nodeRegistry_, adjacencyList_, nodeVars, dnmVars, ret, callbacks>>
         ELSE /\ adjacencyList_' = w.adj
              /\ peerIDs_' = w.ids
              /\ peerAddresses_' = w.addrs
              /\ callbacks' = IF integrityOK THEN Invoke(callbacks, <<"onNetworkRepaired_">>)
                              ELSE callbacks
              /\ nodesMutex_' = 0
              /\ pc' = [pc EXCEPT ![t] = LockIdle]
              /\ ret' = [op |-> "removeNodeGracefully", id |-> nodeID, val |-> TRUE]
              /\ UNCHANGED <<nodeRegistry_, topologyMutex_, lastSeen_, dnmRegistry_>>
  /\ UNCHANGED <<relock, now, pendingRegistrationsMutex_, activeConnections_, rmVars,
                 routerVars, dxVars, wire>>

InitLocks ==
  /\ relock \in RelockOutcomes
  /\ nodeRegistry_ = EmptyMap
  /\ adjacencyList_ = EmptyMap
  /\ topologyMutex_ = 0
  /\ peerIDs_ = <<>>
  /\ peerAddresses_ = <<>>
  /\ lastSeen_ = 0
  /\ dnmRegistry_ = EmptyMap
  /\ nodesMutex_ = 0
  /\ now = 0
  /\ pendingRegistrationsMutex_ = 0
  /\ pc = [t \in Threads |-> LockIdle]
  /\ ret = [op |-> "none"]
  /\ InitExt

NextLocks ==
  \/ \E id \in MemberIds : DNM_addNode(id, Addr1)
  \/ \E t \in Threads :
       \/ \E id \in MemberIds : removeNodeGracefully_lock(t, id)
       \/ removeNodeGracefully_find(t)
       \/ removeNodeGracefully_removeNode_lock(t)
       \/ removeNodeGracefully_removeNode(t)
       \/ removeNodeGracefully_onNodeRemoved(t)
       \/ removeNodeGracefully_repair(t)

SpecLocks == InitLocks /\ [][NextLocks]_vars

(***************************************************************************)
(* C28: a callback is invoked only while the invoking thread holds none of *)
(* the core locks.                                                         *)
(***************************************************************************)
C28_CallbacksWithoutLocks ==
  [][\A t \in Threads :
       (callbacks' # callbacks /\ pc'[t] # pc[t]) => pc[t].holds = <<>>
    ]_vars

\* the order in which the core locks may be taken
LockOrder == <<"topologyMutex_", "nodesMutex_", "routingTableMutex_",
               "pendingMessagesMutex_", "transfersMutex_", "peersMutex_">>

LockRank(lock) == CHOOSE i \in 1..Len(LockOrder) : LockOrder[i] = lock

(***************************************************************************)
(* C29: no thread acquires a lock that comes earlier in the order          *)
(* topology, membership, router, reliable, transfers, peer roster while it *)
(* holds one that comes later; in particular the topology lock is not      *)
(* acquired while the membership lock is held.                             *)
(***************************************************************************)
C29_LockOrder ==
  \A t \in Threads :
    \A i, j \in 1..Len(pc[t].holds) :
      i < j => LockRank(pc[t].holds[i]) < LockRank(pc[t].holds[j])

RegTimestamps == {0, MaxClock}

StampedRequests == [nodeID : PeerPool, address : RaceAddresses, timestamp : RegTimestamps]

handleRegistrationRequest(request) ==
  /\ topologyMutex_ = 0
  /\ pendingRegistrationsMutex_ = 0
  /\ LET valid == validateRegistrationRequest(nodeRegistry_, request)
         room == ~(getPeerCount(peerIDs_) >= MAX_PEERS)
         p == addPeerOn(peerIDs_, peerAddresses_, request.nodeID, request.address)
         accepted == valid /\ room /\ p.ok
     IN  /\ nodeRegistry_' = IF accepted
                             THEN MapPut(nodeRegistry_, request.nodeID, request.address)
                             ELSE nodeRegistry_
         /\ adjacencyList_' = IF accepted THEN MapPut(adjacencyList_, request.nodeID, {})
                              ELSE IF valid /\ room
                              THEN removeNodeFromGraph(
                                     MapPut(nodeRegistry_, request.nodeID, request.address),
                                     MapPut(adjacencyList_, request.nodeID, {}),
                                     request.nodeID).adj
                              ELSE adjacencyList_
         /\ peerIDs_' = IF accepted THEN p.ids ELSE peerIDs_
         /\ peerAddresses_' = IF accepted THEN p.addrs ELSE peerAddresses_
         /\ ret' = [op |-> "handleRegistrationRequest", request |-> request, val |-> accepted]
  /\ UNCHANGED <<relock, topologyMutex_, lastSeen_, dnmVars, now, others>>

NextRegister ==
  \/ Tick
  \/ \E request \in StampedRequests : handleRegistrationRequest(request)
  \/ \E id \in PeerPool : removePeer(id)

SpecRegister == InitRoster /\ [][NextRegister]_vars

(***************************************************************************)
(* C31: a registration request is rejected whenever its timestamp differs  *)
(* from the local clock by more than 60 s, in the past or in the future.   *)
(***************************************************************************)
C31_StaleOrFutureRejected ==
  [][\A request \in StampedRequests :
       ( /\ ret' # ret
         /\ ret'.op = "handleRegistrationRequest" /\ ret'.request = request
         /\ (now - request.timestamp > 60 \/ request.timestamp - now > 60) )
       => ret'.val = FALSE
    ]_vars

(***************************************************************************)
(* MessageRouter::routeMessage with the DIRECT and SHORTEST_PATH strategies*)
(* over the topology and roster operations of SpecRoute.  The statistics   *)
(* counters routedMessageCount_ and totalHopCount_ are not observed.       *)
(***************************************************************************)
\* how many messages routeMessage hands to the transport in one run
MaxRouted == 2

RoutingStrategies == {"DIRECT", "SHORTEST_PATH"}

routeMessage(receiverID, strategy) ==
  /\ topologyMutex_ = 0
  /\ Len(wire) < MaxRouted
  /\ LET route == findRoute(receiverID)
         hop == IF strategy = "DIRECT" /\ hasPeer(peerIDs_, receiverID)
                THEN receiverID
                ELSE nextHop(receiverID)
     IN  \E ok \in (IF hop = 0 THEN {FALSE}
                    ELSE sendMessageToPeer(activeConnections_, hop)) :
           /\ wire' = IF hop = 0 THEN wire
                      ELSE Append(wire, <<hop, "ROUTED", receiverID, 0>>)
           /\ ret' = [op |-> "routeMessage", id |-> receiverID, strategy |-> strategy,
                      route |-> route, val |-> ok]
  /\ UNCHANGED <<relock, topoVars, nodeVars, dnmVars, now, pendingRegistrationsMutex_, pc,
                 activeConnections_, rmVars, routerVars, dxVars, callbacks>>

NextRouteMessage ==
  \/ \E id \in NodeIds, a \in RaceAddresses : addNode(id, a)
  \/ \E id \in NodeIds : removeNode(id)
  \/ repairTopology
  \/ \E id \in PeerPool, a \in RaceAddresses : addPeer(id, a)
  \/ \E id \in PeerPool : removePeer(id)
  \/ \E target \in NodeIds, strategy \in RoutingStrategies : routeMessage(target, strategy)

SpecRouteMessage == InitTopology /\ [][NextRouteMessage]_vars

(***************************************************************************)
(* C32: routing to the local node's own id, whose path is [self] of length *)
(* 1, returns failure and hands nothing to the transport; an empty path    *)
(* likewise returns failure without a transport call.                      *)
(***************************************************************************)
C32_SelfOrNoRouteFails ==
  [][( /\ ret'.op = "routeMessage"
       /\ (ret' # ret \/ wire' # wire)
       /\ Len(ret'.route) <= 1 )
     => (ret'.val = FALSE /\ wire' = wire)
    ]_vars

(***************************************************************************)
(* Several nodes of the overlay, each with its own Node roster and         *)
(* TopologyManager, joined by a transport that delivers every message it   *)
(* is handed: pc[n] is the state of node n and wire holds the messages in  *)
(* flight as pairs <<destination, message>>.                               *)
(***************************************************************************)
OverlayNodes == {1, 2, 3}

\* how many nodes leave the network in one run
MaxLeaves == 1

OverlayNode == [peerIDs_ |-> <<>>, peerAddresses_ |-> <<>>, nodeRegistry_ |-> EmptyMap,
                adjacencyList_ |-> EmptyMap, left |-> FALSE]

InFlightTo(n) == {i \in 1..Len(wire) : wire[i][1] = n}

\* NodeRegistration::acceptRegistration on node n for nodeID, both steps succeeding
acceptRegistrationAt(n, nodeID) ==
  /\ ~pc[n].left /\ ~pc[nodeID].left
  /\ nodeID # n
  /\ nodeID \notin DOMAIN pc[n].nodeRegistry_
  /\ LET p == addPeerOn(pc[n].peerIDs_, pc[n].peerAddresses_, nodeID, Addr1) IN
     /\ p.ok
     /\ pc' = [pc EXCEPT ![n].nodeRegistry_ = MapPut(@, nodeID, Addr1),
                         ![n].adjacencyList_ = MapPut(@, nodeID, {}),
                         ![n].peerIDs_ = p.ids,
                         ![n].peerAddresses_ = p.addrs]
  /\ ret' = [op |-> "acceptRegistration", node |-> n, id |-> nodeID]
  /\ UNCHANGED <<relock, topoVars, nodeVars, dnmVars, now, pendingRegistrationsMutex_, ext>>

createLeaveNotification(self, targetNodeID) ==
  [type |-> "LEAVE_NOTIFICATION", senderID |-> self, receiverID |-> targetNodeID,
   payload |-> <<>>]

createTopologyUpdate(self, updatedNodes) ==
  [type |-> "TOPOLOGY_UPDATE", senderID |-> self, receiverID |-> 0,
   payload |-> serializeNodeList(updatedNodes)]

\* SimulatedNode::leaveNetwork on node n: one notification to every peer
leaveNetwork(n) ==
  /\ ~pc[n].left
  /\ Cardinality({m \in OverlayNodes : pc[m].left}) < MaxLeaves
  /\ wire' = wire \o [i \in 1..Len(pc[n].peerIDs_) |->
                        <<pc[n].peerIDs_[i], createLeaveNotification(n, pc[n].peerIDs_[i])>>]
  /\ pc' = [pc EXCEPT ![n].left = TRUE]
  /\ ret' = [op |-> "leaveNetwork", node |-> n]
  /\ UNCHANGED <<relock, topoVars, nodeVars, dnmVars, now, pendingRegistrationsMutex_,
                 activeConnections_, rmVars, routerVars, dxVars, callbacks>>

\* NetworkManager::broadcastMessage on a roster, every send delivered
broadcastMessage(ids, message, excludeID) ==
  LET to == SelectSeq(ids, LAMBDA peerID : peerID # excludeID)
  IN  [i \in 1..Len(to) |-> <<to[i], message>>]

\* MessageHandler::handleLeaveNotification on node n for the i-th message in flight
handleLeaveNotification(n, i) ==
  /\ i \in InFlightTo(n)
  /\ wire[i][2].type = "LEAVE_NOTIFICATION"
  /\ LET senderID == wire[i][2].senderID
         r == removePeerOn(pc[n].peerIDs_, pc[n].peerAddresses_, senderID)
         g == IF senderID \in DOMAIN pc[n].nodeRegistry_
              THEN removeNodeFromGraph(pc[n].nodeRegistry_, pc[n].adjacencyList_, senderID)
              ELSE [reg |-> pc[n].nodeRegistry_, adj |-> pc[n].adjacencyList_]
     IN  /\ pc' = [pc EXCEPT ![n].peerIDs_ = r.ids,
                             ![n].peerAddresses_ = r.addrs,
                             ![n].nodeRegistry_ = g.reg,
                             ![n].adjacencyList_ = g.adj]
         /\ wire' = EraseAt(wire, i)
                      \o broadcastMessage(r.ids, createTopologyUpdate(n, <<senderID>>), senderID)
         /\ ret' = [op |-> "handleLeaveNotification", node |-> n, id |-> senderID]
  /\ UNCHANGED <<relock, topoVars, nodeVars, dnmVars, now, pendingRegistrationsMutex_,
                 activeConnections_, rmVars, routerVars, dxVars, callbacks>>

\* the loop of handleTopologyUpdate over the ids of the payload
RECURSIVE dropUnknownPeers(_, _, _)
dropUnknownPeers(node, updatedNodes, k) ==
  IF k > Len(updatedNodes) THEN node
  ELSE IF updatedNodes[k] \notin DOMAIN node.nodeRegistry_
  THEN LET r == removePeerOn(node.peerIDs_, node.peerAddresses_, updatedNodes[k])
       IN  dropUnknownPeers([node EXCEPT !.peerIDs_ = r.ids, !.peerAddresses_ = r.addrs],
                            updatedNodes, k + 1)
  ELSE dropUnknownPeers(node, updatedNodes, k + 1)

\* MessageHandler::handleTopologyUpdate on node n for the i-th message in flight
handleTopologyUpdate(n, i) ==
  /\ i \in InFlightTo(n)
  /\ wire[i][2].type = "TOPOLOGY_UPDATE"
  /\ LET updatedNodes == deserializeNodeList(wire[i][2].payload)
         node == dropUnknownPeers(pc[n], updatedNodes, 1)
     IN  /\ pc' = [pc EXCEPT ![n] =
                     [node EXCEPT !.adjacencyList_ =
                        validateTopologyOn(node.nodeRegistry_, node.adjacencyList_)]]
         /\ ret' = [op |-> "handleTopologyUpdate", node |-> n,
                    senderID |-> wire[i][2].senderID, updatedNodes |-> updatedNodes]
  /\ wire' = EraseAt(wire, i)
  /\ UNCHANGED <<relock, topoVars, nodeVars, dnmVars, now, pendingRegistrationsMutex_,
                 activeConnections_, rmVars, routerVars, dxVars, callbacks>>

InitOverlay ==
  /\ relock \in RelockOutcomes
  /\ nodeRegistry_ = EmptyMap
  /\ adjacencyList_ = EmptyMap
  /\ topologyMutex_ = 0
  /\ peerIDs_ = <<>>
  /\ peerAddresses_ = <<>>
  /\ lastSeen_ = 0
  /\ dnmRegistry_ = EmptyMap
  /\ nodesMutex_ = 0
  /\ now = 0
  /\ pendingRegistrationsMutex_ = 0
  /\ pc = [n \in OverlayNodes |-> OverlayNode]
  /\ ret = [op |-> "none"]
  /\ InitExt

NextOverlay ==
  \/ \E n \in OverlayNodes, nodeID \in OverlayNodes : acceptRegistrationAt(n, nodeID)
  \/ \E n \in OverlayNodes : leaveNetwork(n)
  \/ \E n \in OverlayNodes, i \in 1..Len(wire) : handleLeaveNotification(n, i)
  \/ \E n \in OverlayNodes, i \in 1..Len(wire) : handleTopologyUpdate(n, i)

SpecOverlay == InitOverlay /\ [][NextOverlay]_vars

(***************************************************************************)
(* C33: with X in the roster and topology of Q, once Q has processed the   *)
(* TopologyUpdate that P broadcast on X's LeaveNotification, X is no       *)
(* longer in Q's peer roster.                                              *)
(***************************************************************************)
C33_UpdateDropsDeparted ==
  [][\A q \in OverlayNodes, x \in OverlayNodes :
       ( /\ ret'.op = "handleTopologyUpdate" /\ ret'.node = q
         /\ Len(wire') < Len(wire)
         /\ x \in Range(ret'.updatedNodes)
         /\ pc[x].left
         /\ x \in Range(pc[q].peerIDs_) /\ x \in DOMAIN pc[q].nodeRegistry_ )
       => x \notin Range(pc'[q].peerIDs_)
    ]_vars

(***************************************************************************)
(* Two nodes, each the other's only peer, on the delivering transport:     *)
(* the heartbeat round of SimulatedNode::nodeThreadFunction and            *)
(* MessageHandler::handleHeartbeat.  pc[n] is the state of node n, with    *)
(* the NetworkManager's sentMessageCount_ and the thread's lastHeartbeat.  *)
(***************************************************************************)
HeartbeatNodes == {1, 2}

\* how many heartbeat rounds the node threads run in one run
MaxRounds == 2

\* how many Heartbeat messages the transport carries in one run
MaxHeartbeats == 5

HeartbeatNode(peer) == [peerIDs_ |-> <<peer>>, lastSeen_ |-> 0, sentMessageCount_ |-> 0,
                        lastHeartbeat |-> 0, rounds |-> 0]

RECURSIVE SumOver(_, _)
SumOver(f, S) == IF S = {} THEN 0
                 ELSE LET x == CHOOSE y \in S : TRUE IN f[x] + SumOver(f, S \ {x})

HeartbeatsSent == SumOver([n \in HeartbeatNodes |-> pc[n].sentMessageCount_], HeartbeatNodes)
RoundsRun == SumOver([n \in HeartbeatNodes |-> pc[n].rounds], HeartbeatNodes)

createHeartbeat(self, targetNodeID) ==
  [type |-> "HEARTBEAT", senderID |-> self, receiverID |-> targetNodeID, payload |-> <<>>]

\* the heartbeat branch of nodeThreadFunction on node n
sendHeartbeats(n) ==
  /\ RoundsRun < MaxRounds
  /\ now - pc[n].lastHeartbeat >= HEARTBEAT_INTERVAL_SEC
  /\ wire' = wire \o [i \in 1..Len(pc[n].peerIDs_) |->
                        <<pc[n].peerIDs_[i], createHeartbeat(n, pc[n].peerIDs_[i])>>]
  /\ pc' = [pc EXCEPT ![n].lastHeartbeat = now,
                      ![n].rounds = @ + 1,
                      ![n].sentMessageCount_ = @ + Len(pc[n].peerIDs_)]
  /\ ret' = [op |-> "sendHeartbeats", node |-> n]
  /\ UNCHANGED <<relock, topoVars, nodeVars, dnmVars, now, pendingRegistrationsMutex_,
                 activeConnections_, rmVars, routerVars, dxVars, callbacks>>

\* MessageHandler::handleHeartbeat on node n for the i-th message in flight
handleHeartbeatAt(n, i) ==
  /\ i \in InFlightTo(n)
  /\ wire[i][2].type = "HEARTBEAT"
  /\ HeartbeatsSent < MaxHeartbeats
  /\ LET senderID == wire[i][2].senderID IN
     /\ pc' = [pc EXCEPT ![n].lastSeen_ = now, ![n].sentMessageCount_ = @ + 1]
     /\ wire' = Append(EraseAt(wire, i), <<senderID, createHeartbeat(n, senderID)>>)
     /\ ret' = [op |-> "handleHeartbeat", node |-> n, sender |-> senderID]
  /\ UNCHANGED <<relock, topoVars, nodeVars, dnmVars, now, pendingRegistrationsMutex_,
                 activeConnections_, rmVars, routerVars, dxVars, callbacks>>

InitHeartbeat ==
  /\ relock \in RelockOutcomes
  /\ nodeRegistry_ = EmptyMap
  /\ adjacencyList_ = EmptyMap
  /\ topologyMutex_ = 0
  /\ peerIDs_ = <<>>
  /\ peerAddresses_ = <<>>
  /\ lastSeen_ = 0
  /\ dnmRegistry_ = EmptyMap
  /\ nodesMutex_ = 0
  /\ now = 0
  /\ pendingRegistrationsMutex_ = 0
  /\ pc = [n \in HeartbeatNodes |-> HeartbeatNode(CHOOSE m \in HeartbeatNodes : m # n)]
  /\ ret = [op |-> "none"]
  /\ InitExt

NextHeartbeat ==
  \/ Tick
  \/ \E n \in HeartbeatNodes : sendHeartbeats(n)
  \/ \E n \in HeartbeatNodes, i \in 1..Len(wire) : handleHeartbeatAt(n, i)

SpecHeartbeat == InitHeartbeat /\ [][NextHeartbeat]_vars

(***************************************************************************)
(* C35: a Heartbeat sent from A to B causes only that Heartbeat and B's    *)
(* reply to be handed to the transport: A does not answer the reply to its *)
(* own Heartbeat, so each exchange ends after two messages.                *)
(***************************************************************************)
C35_HeartbeatExchangeEnds == HeartbeatsSent <= 2 * RoundsRun

(***************************************************************************)
(* C34: under any interleaving of acknowledgeMessage with                  *)
(* retryPendingMessages, a message that has been acknowledged is not       *)
(* afterwards failed by retryPendingMessages: no step of that call fires   *)
(* the failed callback for it, counts it as failed or drops its record, so *)
(* the delivered and the failed callback never both fire for one message.  *)
(***************************************************************************)
C34_AcknowledgedNeverFailed ==
  [][\A t \in SoloTimer, id \in MessageIds :
       ( /\ pc[t].op = "retryPendingMessages" /\ pc'[t] # pc[t]
         /\ id \in DOMAIN pendingMessages_
         /\ pendingMessages_[id].ackStatus = "ACKNOWLEDGED"
         /\ Delivered(id) >= 1 )
       => /\ Failed(id)' = Failed(id)
          /\ failedMessages_' = failedMessages_
          /\ id \in DOMAIN pendingMessages_'
    ]_vars

(***************************************************************************)
(* The receiving side on a transport that may deliver a chunk more than    *)
(* once: handleDataChunk is also called for chunks it was given before.    *)
(***************************************************************************)
\* how many bytes beyond the payload's length duplicates may bring the count to
MaxDuplicates == 1

\* a chunk of the peer's transfer that arrived before arrives again
handleDataChunkAgain(p, i) ==
  /\ pc[p].op = "sendData"
  /\ i \in 1..Len(pc[p].chunks) /\ i \notin pc[p].inFlight
  /\ pc[p].transferID \in DOMAIN incomingTransfers_
  /\ incomingTransfers_[pc[p].transferID].transferredSize
       < Len(pc[p].payload) + MaxDuplicates
  /\ handleDataChunkOn(pc[p].chunks[i], p)
  /\ UNCHANGED <<relock, topoVars, nodeVars, dnmVars, now, pendingRegistrationsMutex_, pc,
                 activeConnections_, rmVars, routerVars, chunkSize_, transferIDGen, wire>>

NextReceiveAgain ==
  \/ \E data \in Payloads, id \in TransferIds, cs \in ChunkSizes :
        peer_sendData(RmTarget, data, id, cs)
  \/ \E i \in 1..MaxBytes : handleDataChunk(RmTarget, i)
  \/ \E i \in 1..MaxBytes : handleDataChunkAgain(RmTarget, i)

SpecReceiveAgain == InitReceive /\ [][NextReceiveAgain]_vars

(***************************************************************************)
(* C36: for each transferId the data-received callback fires at most once, *)
(* for any sequence of handleDataChunk calls, chunks delivered more than    *)
(* once before or after the transfer completed included.                   *)
(***************************************************************************)
C36_DataReceivedOnce ==
  \A id \in TransferIds : Invocations(callbacks, <<"onDataReceived_", RmTarget, id, 0>>) <= 1

(***************************************************************************)
(* C37: whenever an incoming transfer is Completed, its record has         *)
(* totalSize = transferredSize = the length of completedData_[transferId], *)
(* for every order in which the chunks arrived, each exactly once.         *)
(***************************************************************************)
C37_CompletedSizesAgree ==
  \A id \in DOMAIN incomingTransfers_ :
    incomingTransfers_[id].status = "COMPLETED"
    => /\ id \in DOMAIN completedData_
       /\ incomingTransfers_[id].totalSize = incomingTransfers_[id].transferredSize
       /\ incomingTransfers_[id].transferredSize = Len(completedData_[id])

(***************************************************************************)
(* The membership manager together with the message handlers that write    *)
(* the roster and the topology of the same node.  The messages the         *)
(* handlers hand to the NetworkManager are recorded in ret.                *)
(***************************************************************************)
\* MessageHandler::handleLeaveNotification on this node
handleLeaveNotificationCall(senderID) ==
  /\ topologyMutex_ = 0
  /\ LET r == removePeerOn(peerIDs_, peerAddresses_, senderID)
         g == IF senderID \in DOMAIN nodeRegistry_
              THEN removeNodeFromGraph(nodeRegistry_, adjacencyList_, senderID)
              ELSE [reg |-> nodeRegistry_, adj |-> adjacencyList_]
     IN  /\ peerIDs_' = r.ids
         /\ peerAddresses_' = r.addrs
         /\ nodeRegistry_' = g.reg
         /\ adjacencyList_' = g.adj
         /\ ret' = [op |-> "handleLeaveNotification", id |-> senderID,
                    sent |-> broadcastMessage(r.ids, createTopologyUpdate(LocalId, <<senderID>>),
                                              senderID)]
  /\ UNCHANGED <<relock, topologyMutex_, lastSeen_, dnmVars, now, others>>

\* MessageHandler::handleTopologyUpdate on this node, for the update a peer
\* built with createTopologyUpdate(updatedNodes)
handleTopologyUpdateCall(senderID, updatedNodes) ==
  /\ topologyMutex_ = 0
  /\ LET message == createTopologyUpdate(senderID, updatedNodes)
         node == dropUnknownPeers([peerIDs_ |-> peerIDs_, peerAddresses_ |-> peerAddresses_,
                                   nodeRegistry_ |-> nodeRegistry_],
                                  deserializeNodeList(message.payload), 1)
     IN  /\ peerIDs_' = node.peerIDs_
         /\ peerAddresses_' = node.peerAddresses_
         /\ adjacencyList_' = validateTopologyOn(nodeRegistry_, adjacencyList_)
         /\ ret' = [op |-> "handleTopologyUpdate", id |-> senderID,
                    updatedNodes |-> updatedNodes]
  /\ UNCHANGED <<relock, nodeRegistry_, topologyMutex_, lastSeen_, dnmVars, now, others>>

NextMemberMessages ==
  \/ \E id \in DnmIds, a \in RaceAddresses : DNM_addNode(id, a)
  \/ \E id \in MemberIds : removeNodeGracefully(id)
  \/ \E id \in MemberIds : removeNodeForced(id)
  \/ \E id \in MemberIds : handleJoinRequest(id)
  \/ \E id \in MemberIds : handleLeaveNotificationCall(id)
  \/ \E id \in MemberIds, x \in MemberIds : handleTopologyUpdateCall(id, <<x>>)

SpecMemberMessages == InitMembership /\ [][NextMemberMessages]_vars

(***************************************************************************)
(* C38: in every state reachable by membership operations and message      *)
(* handling, every id with a membership record in state Active is          *)
(* registered in the Topology.                                             *)
(***************************************************************************)
C38_ActiveIsInTopology ==
  \A id \in DOMAIN dnmRegistry_ :
    dnmRegistry_[id].state = "ACTIVE" => id \in DOMAIN nodeRegistry_

(***************************************************************************)
(* The maintenance thread in ensureConnectivity or recoverFromNodeFailure  *)
(* while another thread handles a LeaveNotification, step by step: each    *)
(* step is one call that takes peersMutex_ or topologyMutex_.  The run     *)
(* starts with an empty roster and topology.                               *)
(***************************************************************************)
\* node_->removePeer(message.senderID)
handleLeaveNotification_removePeer(t, senderID) ==
  /\ pc[t] = Idle
  /\ LET r == removePeerOn(peerIDs_, peerAddresses_, senderID) IN
     /\ peerIDs_' = r.ids
     /\ peerAddresses_' = r.addrs
  /\ Goto(t, Frame("handleLeaveNotification", "removeNode", senderID, NoAddress, <<>>, <<>>))
  /\ UNCHANGED <<relock, topoVars, lastSeen_, dnmVars, now, pendingRegistrationsMutex_, ret, ext>>

\* topologyManager_->removeNode(message.senderID) and the broadcast
handleLeaveNotification_removeNode(t) ==
  /\ At(t, "handleLeaveNotification", "removeNode")
  /\ topologyMutex_ = 0
  /\ LET senderID == pc[t].nodeID
         g == IF senderID \in DOMAIN nodeRegistry_
              THEN removeNodeFromGraph(nodeRegistry_, adjacencyList_, senderID)
              ELSE [reg |-> nodeRegistry_, adj |-> adjacencyList_]
     IN  /\ nodeRegistry_' = g.reg
         /\ adjacencyList_' = g.adj
         /\ ret' = [op |-> "handleLeaveNotification", id |-> senderID,
                    sent |-> broadcastMessage(peerIDs_,
                                              createTopologyUpdate(LocalId, <<senderID>>),
                                              senderID)]
  /\ Return(t)
  /\ UNCHANGED <<relock, topologyMutex_, nodeVars, dnmVars, now, pendingRegistrationsMutex_, ext>>

InitLeaveRace ==
  /\ relock \in RelockOutcomes
  /\ nodeRegistry_ = EmptyMap
  /\ adjacencyList_ = EmptyMap
  /\ topologyMutex_ = 0
  /\ peerIDs_ = <<>>
  /\ peerAddresses_ = <<>>
  /\ lastSeen_ = 0
  /\ dnmRegistry_ = EmptyMap
  /\ nodesMutex_ = 0
  /\ now = 0
  /\ pendingRegistrationsMutex_ = 0
  /\ pc = [t \in Threads |-> Idle]
  /\ ret = [op |-> "none"]
  /\ InitExt

NextLeaveRace ==
  \/ \E id \in PeerPool, a \in RaceAddresses : addNode(id, a)
  \/ \E t \in Threads :
       \/ ensureConnectivity_getPeerCount(t)
       \/ ensureConnectivity_getAllNodeIDs(t)
       \/ ensureConnectivity_hasPeer(t)
       \/ ensureConnectivity_loopGetPeerCount(t)
       \/ ensureConnectivity_getNodeAddress(t)
       \/ ensureConnectivity_addPeer(t)
       \/ ensureConnectivity_isTopologyConnected(t)
       \/ \E id \in PeerPool : recoverFromNodeFailure_getAllNodeIDs(t, id)
       \/ findReplacementConnections_hasPeer(t)
       \/ findReplacementConnections_getPeerCount(t)
       \/ establishReplacementConnections_getPeerCount(t)
       \/ establishReplacementConnections_getNodeAddress(t)
       \/ establishReplacementConnections_addPeer(t)
       \/ \E id \in PeerPool : handleLeaveNotification_removePeer(t, id)
       \/ handleLeaveNotification_removeNode(t)

SpecLeaveRace == InitLeaveRace /\ [][NextLeaveRace]_vars

(***************************************************************************)
(* C39: once all operations in progress have finished, every id in the     *)
(* local peer roster is registered in the Topology, under any interleaving *)
(* of ensureConnectivity or establishReplacementConnections on one thread  *)
(* with LeaveNotification handling on another.                             *)
(***************************************************************************)
C39_RosterInTopologyAtRest ==
  (\A t \in Threads : pc[t] = Idle) => Range(peerIDs_) \subseteq DOMAIN nodeRegistry_

(***************************************************************************)
(* MessageRouter::floodMessage called one call at a time, on the messages  *)
(* peers flood to this node.                                               *)
(***************************************************************************)
floodMessage(message) ==
  /\ LET msgID == generateMessageID(message)
         sends == floodSends(peerIDs_, message.senderID, msgID)
     IN  IF isMessageSeen(seenMessages_, msgID)
         THEN /\ ret' = [op |-> "floodMessage", message |-> message, forwarded |-> FALSE,
                         val |-> FALSE]
              /\ UNCHANGED <<seenMessages_, forwardedMessageCount_, wire>>
         ELSE /\ seenMessages_' = markMessageSeen(seenMessages_, msgID)
              /\ wire' = wire \o sends
              /\ forwardedMessageCount_' = forwardedMessageCount_ + 1
              /\ ret' = [op |-> "floodMessage", message |-> message, forwarded |-> TRUE,
                         val |-> \A i \in 1..Len(sends) :
                                    TRUE \in sendMessageToPeer(activeConnections_, sends[i][1])]
  /\ UNCHANGED <<relock, topoVars, nodeVars, dnmVars, now, pendingRegistrationsMutex_, pc,
                 activeConnections_, rmVars, dxVars, callbacks>>

NextFloodCalls ==
  \/ \E message \in FloodMessages :
        forwardedMessageCount_ < MaxForwards /\ floodMessage(message)
  \/ cleanupSeenMessages(0)
  \/ \E id \in PeerPool, a \in RaceAddresses : addPeer(id, a)
  \/ Tick

SpecFloodCalls == InitFlood /\ [][NextFloodCalls]_vars

(***************************************************************************)
(* C40: floodMessage drops a message as a duplicate only if a message with *)
(* the same senderId, receiverId and timestamp was flooded before: when    *)
(* the one message flooded so far differs from the message of a call in    *)
(* any of the three fields, the call forwards its message too.             *)
(***************************************************************************)
C40_DistinctMessagesBothForwarded ==
  [][\A message \in FloodMessages :
       ( /\ ret.op = "floodMessage" /\ ret.forwarded
         /\ forwardedMessageCount_ = 1
         /\ ret'.op = "floodMessage" /\ ret'.message = message /\ ret' # ret
         /\ message # ret.message )
       => ret'.forwarded
    ]_vars

====
